---- MODULE Spec2Model ----
(***************************************************************************)
(* OmniConvert (src/src/omni-convert.js): the structured-data converters   *)
(* (CSV <-> JSON, XML <-> JSON) and the batch driver convertMultiple.      *)
(*                                                                         *)
(* A JavaScript string is a sequence of one-character strings.  A JSON     *)
(* value is a record [t, v]: t is the type tag and v the payload (the      *)
(* characters of String(value) for a scalar, the items of a list, the      *)
(* entries [k, val] of a map in Object.keys order).                        *)
(***************************************************************************)
EXTENDS Integers, Sequences, FiniteSets, TLC

VARIABLES
    pc,          \* position of the running scenario
    jsonData,    \* the parsed content of the JSON input file (a Value)
    text,        \* the content of a text file: CSV characters or XML tokens
    opts,        \* the options the converter was constructed with
    out,         \* what convert() returned or threw
    batch        \* the state of one convertMultiple call

vars == <<pc, jsonData, text, opts, out, batch>>

(***************************************************************************)
(* Bounds of the model.                                                    *)
(***************************************************************************)
MaxText == 5        \* longest raw CSV text given to the decoder
MaxFiles == 3       \* most files in one batch
MaxCells == 4       \* most cells (columns times records) of an encoded table
MaxWidth == 2       \* most entries of a map and most items of a list given to the XML encoder
MaxChildren == 3    \* most child nodes of the root element of a raw XML text
MaxName == 3        \* longest element or attribute name given to the sanitizers
MaxLines == 3       \* most lines of a Markdown document
MaxRows == 4        \* most lines of a Markdown document with table lines
MaxRecords == 2     \* most records of a table with nested maps
MaxEscape == 4      \* longest text given to escapeXml

(***************************************************************************)
(* JavaScript strings.                                                     *)
(***************************************************************************)
NL == "\n"
QUOTE == "\""

WhiteSpace == {" ", NL, "\t", "\r"}

Digits == {"0", "1", "2", "3", "4", "5", "6", "7", "8", "9"}

\* String.prototype.includes for a one-character needle
Includes(s, c) == \E i \in 1..Len(s) : s[i] = c

RECURSIVE TrimStart(_)
TrimStart(s) ==
    IF s # <<>> /\ Head(s) \in WhiteSpace THEN TrimStart(Tail(s)) ELSE s

RECURSIVE TrimEnd(_)
TrimEnd(s) ==
    IF s # <<>> /\ s[Len(s)] \in WhiteSpace
    THEN TrimEnd(SubSeq(s, 1, Len(s) - 1))
    ELSE s

\* String.prototype.trim
Trim(s) == TrimEnd(TrimStart(s))

\* String.prototype.split for a one-character separator: "" gives [""]
RECURSIVE SplitFrom(_, _, _)
SplitFrom(s, sep, i) ==
    LET ks == {k \in i..Len(s) : s[k] = sep}
    IN  IF ks = {} THEN <<SubSeq(s, i, Len(s))>>
        ELSE LET k == CHOOSE x \in ks : \A y \in ks : x <= y
             IN  <<SubSeq(s, i, k - 1)>> \o SplitFrom(s, sep, k + 1)

Split(s, sep) == SplitFrom(s, sep, 1)

\* Array.prototype.join of strings with a one-character separator
RECURSIVE Join(_, _)
Join(parts, sep) ==
    IF parts = <<>> THEN <<>>
    ELSE IF Len(parts) = 1 THEN parts[1]
    ELSE parts[1] \o <<sep>> \o Join(Tail(parts), sep)

UpperCase ==
    <<"A", "B", "C", "D", "E", "F", "G", "H", "I", "J", "K", "L", "M",
      "N", "O", "P", "Q", "R", "S", "T", "U", "V", "W", "X", "Y", "Z">>

LowerCase ==
    <<"a", "b", "c", "d", "e", "f", "g", "h", "i", "j", "k", "l", "m",
      "n", "o", "p", "q", "r", "s", "t", "u", "v", "w", "x", "y", "z">>

ToLowerChar(c) ==
    IF \E i \in 1..26 : UpperCase[i] = c
    THEN LowerCase[CHOOSE i \in 1..26 : UpperCase[i] = c]
    ELSE c

ToLowerCase(s) == [i \in 1..Len(s) |-> ToLowerChar(s[i])]

(***************************************************************************)
(* JSON values.                                                            *)
(***************************************************************************)
Null == [t |-> "null", v |-> <<>>]
Undefined == [t |-> "undefined", v |-> <<>>]
True == [t |-> "bool", v |-> <<"t", "r", "u", "e">>]
False == [t |-> "bool", v |-> <<"f", "a", "l", "s", "e">>]
Num(digits) == [t |-> "num", v |-> digits]
Str(s) == [t |-> "str", v |-> s]
List(items) == [t |-> "list", v |-> items]
Map(entries) == [t |-> "map", v |-> entries]
Entry(key, value) == [k |-> key, val |-> value]

\* the text of a JSON file that JSON.parse rejects
Malformed == [t |-> "malformed", v |-> <<>>]

IsArray(x) == x.t = "list"
\* typeof x === 'object' (true of null, lists and maps)
TypeofObject(x) == x.t \in {"null", "list", "map"}

\* ToBoolean: the falsy values are undefined, null, false, 0 and ""
Truthy(x) ==
    CASE x.t \in {"null", "undefined"} -> FALSE
      [] x.t = "bool" -> x = True
      [] x.t = "num" -> x.v # <<"0">>
      [] x.t = "str" -> x.v # <<>>
      [] OTHER -> TRUE

\* x || ''
OrEmpty(x) == IF Truthy(x) THEN x ELSE Str(<<>>)

Keys(m) == [i \in 1..Len(m.v) |-> m.v[i].k]

HasKey(m, key) == \E i \in 1..Len(m.v) : m.v[i].k = key

\* the value of an own property of a map
Lookup(m, key) ==
    IF HasKey(m, key)
    THEN m.v[CHOOSE i \in 1..Len(m.v) : m.v[i].k = key].val
    ELSE Undefined

\* String(value)
RECURSIVE JsString(_)
JsString(x) ==
    CASE x.t = "null" -> <<"n", "u", "l", "l">>
      [] x.t = "undefined" -> <<"u", "n", "d", "e", "f", "i", "n", "e", "d">>
      [] x.t = "map" -> <<"[", "o", "b", "j", "e", "c", "t", " ",
                          "O", "b", "j", "e", "c", "t", "]">>
      [] x.t = "list" ->
            Join([i \in 1..Len(x.v) |->
                     IF x.v[i].t \in {"null", "undefined"} THEN <<>>
                     ELSE JsString(x.v[i])], ",")
      [] OTHER -> x.v

(***************************************************************************)
(* JavaScript objects: own string keys are kept in Object.keys order,      *)
(* array-index keys first in ascending numeric order, then the other keys  *)
(* in insertion order.                                                     *)
(***************************************************************************)
DigitVal(c) ==
    CASE c = "0" -> 0 [] c = "1" -> 1 [] c = "2" -> 2 [] c = "3" -> 3
      [] c = "4" -> 4 [] c = "5" -> 5 [] c = "6" -> 6 [] c = "7" -> 7
      [] c = "8" -> 8 [] c = "9" -> 9 [] OTHER -> 0

DigitChar(n) ==
    CASE n = 0 -> "0" [] n = 1 -> "1" [] n = 2 -> "2" [] n = 3 -> "3"
      [] n = 4 -> "4" [] n = 5 -> "5" [] n = 6 -> "6" [] n = 7 -> "7"
      [] n = 8 -> "8" [] OTHER -> "9"

RECURSIVE ToNat(_)
ToNat(s) ==
    IF s = <<>> THEN 0
    ELSE 10 * ToNat(SubSeq(s, 1, Len(s) - 1)) + DigitVal(s[Len(s)])

RECURSIVE NatToString(_)
NatToString(n) ==
    IF n < 10 THEN <<DigitChar(n)>>
    ELSE Append(NatToString(n \div 10), DigitChar(n % 10))

\* a canonical array index: "0", or digits without a leading zero
\* (strings of the model are far shorter than the 2^32 - 2 limit)
IsArrayIndex(key) ==
    /\ key # <<>>
    /\ \A i \in 1..Len(key) : key[i] \in Digits
    /\ (Len(key) = 1 \/ key[1] # "0")

\* obj[key] = value on an ordinary object
ObjSet(entries, key, value) ==
    IF \E i \in 1..Len(entries) : entries[i].k = key
    THEN [i \in 1..Len(entries) |->
             IF entries[i].k = key THEN Entry(key, value) ELSE entries[i]]
    ELSE IF IsArrayIndex(key)
    THEN LET before == {i \in 1..Len(entries) :
                           /\ IsArrayIndex(entries[i].k)
                           /\ ToNat(entries[i].k) < ToNat(key)}
             n == Cardinality(before)
         IN  SubSeq(entries, 1, n) \o <<Entry(key, value)>>
                 \o SubSeq(entries, n + 1, Len(entries))
    ELSE Append(entries, Entry(key, value))

\* x[key] for a string key; the caller rules out null and undefined
GetProp(x, key) ==
    CASE x.t = "map" -> Lookup(x, key)
      [] x.t = "list" ->
            IF IsArrayIndex(key) /\ ToNat(key) < Len(x.v)
            THEN x.v[ToNat(key) + 1]
            ELSE IF key = <<"l", "e", "n", "g", "t", "h">>
            THEN Num(NatToString(Len(x.v)))
            ELSE Undefined
      [] x.t = "str" ->
            IF IsArrayIndex(key) /\ ToNat(key) < Len(x.v)
            THEN Str(<<x.v[ToNat(key) + 1]>>)
            ELSE IF key = <<"l", "e", "n", "g", "t", "h">>
            THEN Num(NatToString(Len(x.v)))
            ELSE Undefined
      [] OTHER -> Undefined

(***************************************************************************)
(* What convert() returns or throws.                                       *)
(***************************************************************************)
NoResult == [ok |-> FALSE, error |-> "none", data |-> <<>>]
Ok(d) == [ok |-> TRUE, error |-> "", data |-> d]
Throw(e) == [ok |-> FALSE, error |-> e, data |-> <<>>]

(***************************************************************************)
(* CsvToJsonConverter                                                      *)
(***************************************************************************)
RECURSIVE parseCSVLineFrom(_, _, _, _, _, _)
parseCSVLineFrom(line, delimiter, i, result, current, inQuotes) ==
    IF i > Len(line) THEN Append(result, Trim(current))
    ELSE IF line[i] = QUOTE
    THEN parseCSVLineFrom(line, delimiter, i + 1, result, current, ~inQuotes)
    ELSE IF line[i] = delimiter /\ ~inQuotes
    THEN parseCSVLineFrom(line, delimiter, i + 1,
                          Append(result, Trim(current)), <<>>, inQuotes)
    ELSE parseCSVLineFrom(line, delimiter, i + 1, result,
                          Append(current, line[i]), inQuotes)

parseCSVLine(line, delimiter) ==
    parseCSVLineFrom(line, delimiter, 1, <<>>, <<>>, FALSE)

\* the lines that survive `if (line.trim() === '') continue`
NonEmptyLines(csv) ==
    SelectSeq(Split(Trim(csv), NL), LAMBDA line : Trim(line) # <<>>)

parseCSVText(csv, delimiter) ==
    LET lines == NonEmptyLines(csv)
    IN  [i \in 1..Len(lines) |-> parseCSVLine(lines[i], delimiter)]

\* headers.forEach((header, index) => { obj[header] = row[index] || '' })
RECURSIVE RowToObject(_, _, _, _)
RowToObject(headers, row, index, obj) ==
    IF index > Len(headers) THEN Map(obj)
    ELSE RowToObject(headers, row, index + 1,
             ObjSet(obj, headers[index],
                    IF index <= Len(row)
                    THEN OrEmpty(Str(row[index]))
                    ELSE Str(<<>>)))

RowToList(row) == List([i \in 1..Len(row) |-> Str(row[i])])

\* the data rows taken from the first line on (dataRows = csvData, no slice(1))
CsvToJsonConverter_convert_NoSlice(csv, o) ==
    LET csvData == parseCSVText(csv, o.delimiter)
    IN  IF Len(csvData) = 0 THEN Throw("EmptyCsv")
        ELSE IF o.hasHeader /\ Len(csvData) > 1
        THEN Ok(List([i \in 1..Len(csvData) |->
                         RowToObject(csvData[1], csvData[i], 1, <<>>)]))
        ELSE Ok(List([i \in 1..Len(csvData) |-> RowToList(csvData[i])]))

CsvToJsonConverter_convert(csv, o) ==
    LET csvData == parseCSVText(csv, o.delimiter)
    IN  IF Len(csvData) = 0 THEN Throw("EmptyCsv")
        ELSE IF o.hasHeader /\ Len(csvData) > 1
        THEN Ok(List([i \in 1..(Len(csvData) - 1) |->
                         RowToObject(csvData[1], csvData[i + 1], 1, <<>>)]))
        ELSE Ok(List([i \in 1..Len(csvData) |-> RowToList(csvData[i])]))

(***************************************************************************)
(* JsonToCsvConverter                                                      *)
(***************************************************************************)
\* str.replace(/"/g, '""')
RECURSIVE DoubleQuotes(_)
DoubleQuotes(s) ==
    IF s = <<>> THEN <<>>
    ELSE IF Head(s) = QUOTE THEN <<QUOTE, QUOTE>> \o DoubleQuotes(Tail(s))
    ELSE <<Head(s)>> \o DoubleQuotes(Tail(s))

escapeCSVCell(value, delimiter) ==
    LET str == JsString(OrEmpty(value))
    IN  IF Includes(str, delimiter) \/ Includes(str, QUOTE) \/ Includes(str, NL)
        THEN <<QUOTE>> \o DoubleQuotes(str) \o <<QUOTE>>
        ELSE str

\* row is the sequence of the row's values
escapeCSVRow(row, delimiter) ==
    Join([i \in 1..Len(row) |-> escapeCSVCell(row[i], delimiter)], delimiter)

\* csvContent += escapeCSVRow(...) + '\n' for every row
RECURSIVE ConcatLines(_)
ConcatLines(rows) ==
    IF rows = <<>> THEN <<>>
    ELSE Head(rows) \o <<NL>> \o ConcatLines(Tail(rows))

JsonToCsvConverter_convert(data, o) ==
    IF data = Malformed THEN Throw("InvalidJSON")
    ELSE IF ~IsArray(data) THEN Throw("NotArray")
    ELSE IF Len(data.v) = 0 THEN Throw("EmptyArray")
    ELSE IF TypeofObject(data.v[1]) /\ ~IsArray(data.v[1])
    THEN \* array of objects; Object.keys(null) and null[header] throw
         IF \/ data.v[1] = Null
            \/ /\ Len(data.v[1].v) > 0
               /\ \E i \in 1..Len(data.v) : data.v[i] = Null
         THEN Throw("TypeError")
         ELSE LET headers == Keys(data.v[1])
                  headerLine ==
                      IF o.includeHeader
                      THEN <<escapeCSVRow([i \in 1..Len(headers) |-> Str(headers[i])],
                                          o.delimiter)>>
                      ELSE <<>>
                  rowLine(row) ==
                      escapeCSVRow([i \in 1..Len(headers) |->
                                       OrEmpty(GetProp(row, headers[i]))],
                                   o.delimiter)
              IN  Ok(ConcatLines(headerLine \o
                        [i \in 1..Len(data.v) |-> rowLine(data.v[i])]))
    ELSE IF IsArray(data.v[1])
    THEN \* array of arrays; row.map is not a function unless row is a list
         IF \E i \in 1..Len(data.v) : ~IsArray(data.v[i])
         THEN Throw("TypeError")
         ELSE Ok(ConcatLines([i \in 1..Len(data.v) |->
                                 escapeCSVRow(data.v[i].v, o.delimiter)]))
    ELSE Throw("UnsupportedStructure")

(***************************************************************************)
(* Inputs of the CSV scenarios.                                            *)
(***************************************************************************)
Delimiters == {",", ";"}

\* the characters of the raw CSV texts handed to the decoder
CsvAlphabet == {"a", "1", ",", NL, QUOTE}

\* the raw CSV texts of at most maxLen characters
CsvTexts(maxLen) == UNION {[1..n -> CsvAlphabet] : n \in 0..maxLen}

\* the cell strings of the tables handed to the encoder
CellStrings ==
    {<<>>, <<"a">>, <<" ", "a">>, <<QUOTE>>, <<",">>, <<";">>, <<NL>>}

ColNames == <<<<"a">>, <<"b">>, <<"c">>, <<"d">>, <<"e">>, <<"f">>>>

\* a record of a table: the first n column names with the given cells
Record(cells) == Map([i \in 1..Len(cells) |-> Entry(ColNames[i], Str(cells[i]))])

\* the table of the given rows of cells: a list of maps that share their keys
Table(cells) == List([i \in 1..Len(cells) |-> Record(cells[i])])

\* a non-empty list of maps that share their ordered keys and hold strings
IsTable(x) ==
    /\ x.t = "list"
    /\ Len(x.v) >= 1
    /\ \A i \in 1..Len(x.v) :
          /\ x.v[i].t = "map"
          /\ Keys(x.v[i]) = Keys(x.v[1])
          /\ \A j \in 1..Len(x.v[i].v) : x.v[i].v[j].val.t = "str"

ScalarValues == {Null, True, False, Num(<<"0">>), Num(<<"7">>), Str(<<>>), Str(<<"a">>)}

\* rows of other kinds
OddRows ==
    {Map(<<Entry(<<"a">>, x)>>) : x \in ScalarValues}
        \cup {Map(<<Entry(<<"a">>, Map(<<Entry(<<"b">>, Str(<<"a">>))>>))>>), Map(<<>>)}
        \cup {List(<<x>>) : x \in ScalarValues}
        \cup {List(<<Str(c)>>) : c \in CellStrings}
        \cup {List(<<>>)}
        \cup ScalarValues

OddJsonInputs ==
    {Malformed, List(<<>>), Map(<<>>), Map(<<Entry(<<"a">>, Str(<<"a">>))>>)}
        \cup ScalarValues
        \cup {List(rows) : rows \in UNION {[1..n -> OddRows] : n \in 1..2}}

CsvOptions == [delimiter : Delimiters, includeHeader : BOOLEAN, hasHeader : BOOLEAN]

Idle == [state |-> "idle"]

(***************************************************************************)
(* SpecCsvDecode: csv-to-json on a raw CSV text.                           *)
(* SpecCsv: json-to-csv on a JSON value, then csv-to-json on its output.   *)
(***************************************************************************)
InitCsvDecode ==
    /\ pc = "csv"
    /\ jsonData = Undefined
    /\ text \in CsvTexts(MaxText)
    /\ opts \in {o \in CsvOptions : o.includeHeader}
    /\ out = NoResult
    /\ batch = Idle

InitCsv ==
    /\ pc = "json"
    /\ \/ \E nc \in 1..MaxCells : \E nr \in 1..MaxCells :
             /\ nc * nr <= MaxCells
             /\ \E cells \in [1..nr -> [1..nc -> CellStrings]] : jsonData = Table(cells)
       \/ jsonData \in OddJsonInputs
    /\ text = <<>>
    /\ opts \in CsvOptions
    /\ out = NoResult
    /\ batch = Idle

\* JsonToCsvConverter.convert on the JSON file
JsonToCsv ==
    /\ pc = "json"
    /\ LET r == JsonToCsvConverter_convert(jsonData, opts)
       IN  /\ out' = r
           /\ text' = r.data
           /\ pc' = IF r.ok THEN "encoded" ELSE "failed"
    /\ UNCHANGED <<jsonData, opts, batch>>

\* CsvToJsonConverter.convert on the CSV file (raw, or the encoder's output)
CsvToJson ==
    /\ pc \in {"csv", "encoded"}
    /\ out' = CsvToJsonConverter_convert(text, opts)
    /\ pc' = IF pc = "csv" THEN "decoded" ELSE "roundtrip"
    /\ UNCHANGED <<jsonData, text, opts, batch>>

NextCsvDecode == CsvToJson

NextCsv == JsonToCsv \/ CsvToJson

SpecCsvDecode == InitCsvDecode /\ [][NextCsvDecode]_vars

SpecCsv == InitCsv /\ [][NextCsv]_vars

(***************************************************************************)
(* Properties of the CSV codec.                                            *)
(***************************************************************************)
\* the cells of a table are strings without line breaks
NoLineBreaks(table) ==
    \A i \in 1..Len(table.v) : \A j \in 1..Len(table.v[i].v) :
        ~Includes(table.v[i].v[j].val.v, NL)

\* C1: CSV round trip.  Decoding (hasHeader = true, same delimiter) the text
\* that encoding (includeHeader = true) produced from a non-empty list of
\* maps with shared keys and string cells without line breaks yields a list
\* equal to the original one.
C1_CsvRoundTrip ==
    (/\ pc = "roundtrip"
     /\ IsTable(jsonData)
     /\ NoLineBreaks(jsonData)
     /\ opts.includeHeader
     /\ opts.hasHeader)
        => (out.ok /\ out.data = jsonData)

\* a table of one raw row holding one cell
OneCell(c) == List(<<List(<<Str(c)>>)>>)

NeedsEscape(c, delimiter) ==
    Includes(c, delimiter) \/ Includes(c, QUOTE) \/ Includes(c, NL)

\* C2: CSV escaping round trip.  A cell that contains the delimiter, a double
\* quote or a newline, written by escapeCSVRow and read back by the decoder
\* with the same delimiter, comes back as the original cell string.
C2_CsvEscapeRoundTrip ==
    \A c \in CellStrings :
        (/\ pc = "roundtrip"
         /\ jsonData = OneCell(c)
         /\ NeedsEscape(c, opts.delimiter))
            => (out.ok /\ out.data = OneCell(c))

\* the error kinds of the spec's taxonomy
ErrorKind(error) ==
    IF error \in {"NotArray", "EmptyArray", "UnsupportedStructure"}
    THEN "UnsupportedStructure"
    ELSE error

AllMaps(list) == \A i \in 1..Len(list.v) : list.v[i].t = "map"
AllLists(list) == \A i \in 1..Len(list.v) : list.v[i].t = "list"

\* a parsed value that CSV encoding does not support
UnsupportedShape(x) ==
    /\ x # Malformed
    /\ \/ ~IsArray(x)
       \/ Len(x.v) = 0
       \/ ~(AllMaps(x) \/ AllLists(x))

\* C7: CSV encode rejects unsupported shapes.  JSON-to-CSV conversion of a
\* value that is not a list, is an empty list, or is a list whose elements are
\* not all maps and not all lists fails with the unsupported-structure error
\* and produces no CSV text.
C7_CsvEncodeRejects ==
    (pc \in {"encoded", "failed"} /\ UnsupportedShape(jsonData))
        => (~out.ok /\ ErrorKind(out.error) = "UnsupportedStructure" /\ text = <<>>)

\* the string form a cell value is written as
CellForm(x) == IF x \in {Null, Undefined} THEN <<>> ELSE JsString(x)

\* C10: CSV encode cell stringification.  A scalar cell value is written as
\* its string form (0 as 0, false as false) and only null and undefined as the
\* empty string, for rows given as maps and for rows given as lists.
C10_CsvCellStringified ==
    \A x \in ScalarValues :
        (/\ pc = "encoded"
         /\ ~opts.includeHeader
         /\ jsonData \in {List(<<Map(<<Entry(<<"a">>, x)>>)>>), List(<<List(<<x>>)>>)})
            => text = CellForm(x) \o <<NL>>

\* the rows of the decoded text: one per non-empty line
DecodedRows == parseCSVText(text, opts.delimiter)

CellOrEmpty(row, i) == IF i <= Len(row) THEN row[i] ELSE <<>>

\* the map the claim describes for a data row: the header cells as keys in
\* header order, header[i] mapped to the i-th cell or to the empty string
IsHeaderMap(m, header, row) ==
    /\ m.t = "map"
    /\ Keys(m) = header
    /\ \A i \in 1..Len(header) : Lookup(m, header[i]) = Str(CellOrEmpty(row, i))

IsRawRows(x, rows) ==
    /\ x.t = "list"
    /\ Len(x.v) = Len(rows)
    /\ \A j \in 1..Len(rows) : x.v[j] = List([i \in 1..Len(rows[j]) |-> Str(rows[j][i])])

IsHeaderMaps(x, rows) ==
    /\ x.t = "list"
    /\ Len(x.v) = Len(rows) - 1
    /\ \A j \in 1..Len(x.v) : IsHeaderMap(x.v[j], rows[1], rows[j + 1])

DecodeShape(rows) ==
    /\ out.ok
    /\ IF opts.hasHeader /\ Len(rows) >= 2
       THEN IsHeaderMaps(out.data, rows)
       ELSE IsRawRows(out.data, rows)

PlainHeader(header) ==
    /\ \A i, j \in 1..Len(header) : header[i] = header[j] => i = j
    /\ \A i \in 1..Len(header) : ~IsArrayIndex(header[i])

Decl(encoding) == [kind |-> "decl", name |-> encoding, attrs |-> <<>>, chars |-> <<>>]
Open(name, attrs) == [kind |-> "open", name |-> name, attrs |-> attrs, chars |-> <<>>]
Empty(name, attrs) == [kind |-> "empty", name |-> name, attrs |-> attrs, chars |-> <<>>]
Close(name) == [kind |-> "close", name |-> name, attrs |-> <<>>, chars |-> <<>>]
Text(chars) == [kind |-> "text", name |-> <<>>, attrs |-> <<>>, chars |-> chars]
Attr(name, value) == [name |-> name, value |-> value]

\* a string appended to the text: nothing when it is empty
Chars(s) == IF s = <<>> THEN <<>> ELSE <<Text(s)>>

Letters ==
    {"a", "b", "c", "d", "e", "f", "g", "h", "i", "j", "k", "l", "m",
     "n", "o", "p", "q", "r", "s", "t", "u", "v", "w", "x", "y", "z",
     "A", "B", "C", "D", "E", "F", "G", "H", "I", "J", "K", "L", "M",
     "N", "O", "P", "Q", "R", "S", "T", "U", "V", "W", "X", "Y", "Z"}

StartsWith(s, prefix) ==
    Len(prefix) <= Len(s) /\ SubSeq(s, 1, Len(prefix)) = prefix

\* '  '.repeat(indent)
Spaces(n) == [i \in 1..n |-> " "]

(***************************************************************************)
(* JsonToXmlConverter                                                      *)
(***************************************************************************)
\* /^[^a-zA-Z_]/ replaced by the empty string instead of '_'
sanitizeElementName_Strip(name) ==
    LET replaced == [i \in 1..Len(name) |->
                        IF name[i] \in Letters \cup Digits \cup {"-", "_", "."}
                        THEN name[i] ELSE "_"]
    IN  IF replaced # <<>> /\ replaced[1] \notin Letters \cup {"_"}
        THEN Tail(replaced)
        ELSE replaced

\* name.replace(/[^a-zA-Z0-9\-_\.]/g, '_').replace(/^[^a-zA-Z_]/, '_')
sanitizeElementName(name) ==
    LET replaced == [i \in 1..Len(name) |->
                        IF name[i] \in Letters \cup Digits \cup {"-", "_", "."}
                        THEN name[i] ELSE "_"]
    IN  IF replaced # <<>> /\ replaced[1] \notin Letters \cup {"_"}
        THEN <<"_">> \o Tail(replaced)
        ELSE replaced

sanitizeAttributeName(name) ==
    LET replaced == [i \in 1..Len(name) |->
                        IF name[i] \in Letters \cup Digits \cup {"-", "_", "."}
                        THEN name[i] ELSE "_"]
    IN  IF replaced # <<>> /\ replaced[1] \notin Letters \cup {"_"}
        THEN <<"_">> \o Tail(replaced)
        ELSE replaced

\* text.replace(/c/g, replacement)
RECURSIVE ReplaceAll(_, _, _)
ReplaceAll(s, c, replacement) ==
    IF s = <<>> THEN <<>>
    ELSE (IF Head(s) = c THEN replacement ELSE <<Head(s)>>)
             \o ReplaceAll(Tail(s), c, replacement)

\* the ampersand replaced last instead of first
escapeXml_AmpersandLast(s) ==
    LET s1 == ReplaceAll(s, "<", <<"&", "l", "t", ";">>)
        s2 == ReplaceAll(s1, ">", <<"&", "g", "t", ";">>)
        s3 == ReplaceAll(s2, QUOTE, <<"&", "q", "u", "o", "t", ";">>)
        s4 == ReplaceAll(s3, "'", <<"&", "a", "p", "o", "s", ";">>)
    IN  ReplaceAll(s4, "&", <<"&", "a", "m", "p", ";">>)

escapeXml(s) ==
    LET s1 == ReplaceAll(s, "&", <<"&", "a", "m", "p", ";">>)
        s2 == ReplaceAll(s1, "<", <<"&", "l", "t", ";">>)
        s3 == ReplaceAll(s2, ">", <<"&", "g", "t", ";">>)
        s4 == ReplaceAll(s3, QUOTE, <<"&", "q", "u", "o", "t", ";">>)
    IN  ReplaceAll(s4, "'", <<"&", "a", "p", "o", "s", ";">>)

indentStr(o, indent) == IF o.prettyPrint THEN Spaces(2 * indent) ELSE <<>>
newlineStr(o) == IF o.prettyPrint THEN <<NL>> ELSE <<>>

primitiveToXml(value, elementName, indent, o) ==
    IF value \in {Null, Undefined}
    THEN Chars(indentStr(o, indent))
             \o <<Empty(sanitizeElementName(elementName), <<>>)>>
             \o Chars(newlineStr(o))
    ELSE Chars(indentStr(o, indent))
             \o <<Open(sanitizeElementName(elementName), <<>>)>>
             \o Chars(escapeXml(JsString(value)))
             \o <<Close(sanitizeElementName(elementName))>>
             \o Chars(newlineStr(o))

\* Object.entries(x) of a value other than null and undefined: the entries
\* of a map, the indexed items of a list, the indexed characters of a
\* string, nothing for a number or a boolean
ObjectEntries(x) ==
    CASE x.t = "map" -> x.v
      [] x.t = "list" -> [i \in 1..Len(x.v) |-> Entry(NatToString(i - 1), x.v[i])]
      [] x.t = "str" -> [i \in 1..Len(x.v) |-> Entry(NatToString(i - 1), Str(<<x.v[i]>>))]
      [] OTHER -> <<>>

RECURSIVE objectToXml(_, _, _, _)
RECURSIVE arrayToXml(_, _, _, _)
RECURSIVE ObjectParts(_, _, _, _, _)

\* the loop over Object.entries(obj) in objectToXml, from entry i on
ObjectParts(entries, i, acc, indent, o) ==
    IF i > Len(entries) THEN acc
    ELSE LET key == entries[i].k
             value == entries[i].val
         IN  IF StartsWith(key, o.attributePrefix)
             THEN ObjectParts(entries, i + 1,
                      [acc EXCEPT !.attributes =
                          Append(@, Attr(sanitizeAttributeName(
                                             SubSeq(key, Len(o.attributePrefix) + 1, Len(key))),
                                         escapeXml(JsString(value))))],
                      indent, o)
             ELSE IF key = o.textNodeName
             THEN ObjectParts(entries, i + 1,
                      [acc EXCEPT !.hasTextContent = TRUE,
                                  !.content = Chars(escapeXml(JsString(value)))],
                      indent, o)
             ELSE ObjectParts(entries, i + 1,
                      [acc EXCEPT !.content =
                          @ \o (IF IsArray(value) THEN arrayToXml(value, key, indent + 1, o)
                                ELSE IF TypeofObject(value) /\ value # Null
                                THEN objectToXml(value, key, indent + 1, o)
                                ELSE primitiveToXml(value, key, indent + 1, o))],
                      indent, o)

\* obj is any value but null and undefined, for which Object.entries throws
objectToXml(obj, elementName, indent, o) ==
    LET parts == ObjectParts(ObjectEntries(obj), 1,
                     [attributes |-> <<>>, content |-> <<>>, hasTextContent |-> FALSE],
                     indent, o)
        name == sanitizeElementName(elementName)
    IN  Chars(indentStr(o, indent)) \o
        (IF parts.content = <<>> /\ ~parts.hasTextContent
         THEN <<Empty(name, parts.attributes)>> \o Chars(newlineStr(o))
         ELSE <<Open(name, parts.attributes)>>
                  \o (IF parts.hasTextContent
                      THEN parts.content
                      ELSE Chars(newlineStr(o)) \o parts.content
                               \o Chars(indentStr(o, indent)))
                  \o <<Close(name)>> \o Chars(newlineStr(o)))

\* arr is the sequence of the items
RECURSIVE ArrayItems(_, _, _, _, _)
ArrayItems(items, i, elementName, indent, o) ==
    IF i > Len(items) THEN <<>>
    ELSE (IF IsArray(items[i]) THEN arrayToXml(items[i], o.arrayElementName, indent, o)
          ELSE IF TypeofObject(items[i]) /\ items[i] # Null
          THEN objectToXml(items[i], elementName, indent, o)
          ELSE primitiveToXml(items[i], elementName, indent, o))
             \o ArrayItems(items, i + 1, elementName, indent, o)

arrayToXml(arr, elementName, indent, o) ==
    ArrayItems(arr.v, 1, elementName, indent, o)

DefaultRoot == <<"r", "o", "o", "t">>

jsonToXml(data, o) ==
    LET declaration ==
            IF o.xmlDeclaration THEN <<Decl(o.encoding), Text(<<NL>>)>> ELSE <<>>
    IN  IF TypeofObject(data) /\ data # Null
        THEN IF IsArray(data)
             THEN Ok(declaration \o arrayToXml(data, o.rootElementName, 0, o))
             ELSE IF Len(data.v) = 1
             THEN \* Object.entries(null) throws inside objectToXml
                  IF data.v[1].val = Null THEN Throw("TypeError")
                  ELSE Ok(declaration \o objectToXml(data.v[1].val, data.v[1].k, 0, o))
             ELSE IF Len(data.v) > 1
             THEN Ok(declaration \o
                     objectToXml(data,
                         IF o.rootElementName = DefaultRoot
                         THEN <<"d", "a", "t", "a">> ELSE o.rootElementName, 0, o))
             ELSE Ok(declaration \o objectToXml(data, <<"e", "m", "p", "t", "y">>, 0, o))
        ELSE Ok(declaration \o
                primitiveToXml(data,
                    IF o.rootElementName = DefaultRoot
                    THEN <<"v", "a", "l", "u", "e">> ELSE o.rootElementName, 0, o))

JsonToXmlConverter_convert(data, o) ==
    IF data = Malformed THEN Throw("InvalidJSON") ELSE jsonToXml(data, o)

(***************************************************************************)
(* DOMParser.parseFromString(xmlText, 'text/xml'): the host's XML parser,  *)
(* on the tokens of the text.  A DOM node is an element (name, attributes, *)
(* children) or a text node (value).                                       *)
(***************************************************************************)
Element(name, attrs, children) ==
    [kind |-> "element", name |-> name, attrs |-> attrs, children |-> children,
     value |-> <<>>]
TextNode(value) ==
    [kind |-> "text", name |-> <<>>, attrs |-> <<>>, children |-> <<>>, value |-> value]

NameStartChars == Letters \cup {"_", ":"}
NameChars == Letters \cup Digits \cup {"_", ":", "-", "."}

ValidName(n) ==
    /\ n # <<>>
    /\ n[1] \in NameStartChars
    /\ \A i \in 1..Len(n) : n[i] \in NameChars

Entities ==
    << <<<<"&", "a", "m", "p", ";">>, "&">>,
       <<<<"&", "l", "t", ";">>, "<">>,
       <<<<"&", "g", "t", ";">>, ">">>,
       <<<<"&", "q", "u", "o", "t", ";">>, QUOTE>>,
       <<<<"&", "a", "p", "o", "s", ";">>, "'">> >>

EntityAt(s) == {i \in 1..Len(Entities) : StartsWith(s, Entities[i][1])}

\* character data is well formed: no raw <, every & starts an entity
RECURSIVE WellFormedChars(_)
WellFormedChars(s) ==
    IF s = <<>> THEN TRUE
    ELSE IF Head(s) = "<" THEN FALSE
    ELSE IF Head(s) = "&"
    THEN /\ EntityAt(s) # {}
         /\ LET e == CHOOSE i \in EntityAt(s) : TRUE
            IN  WellFormedChars(SubSeq(s, Len(Entities[e][1]) + 1, Len(s)))
    ELSE WellFormedChars(Tail(s))

\* the characters that well-formed character data stands for
RECURSIVE Unescape(_)
Unescape(s) ==
    IF s = <<>> THEN <<>>
    ELSE IF Head(s) = "&" /\ EntityAt(s) # {}
    THEN LET e == CHOOSE i \in EntityAt(s) : TRUE
         IN  <<Entities[e][2]>> \o Unescape(SubSeq(s, Len(Entities[e][1]) + 1, Len(s)))
    ELSE <<Head(s)>> \o Unescape(Tail(s))

\* attribute-value normalization: a literal line break or tab becomes a space
NormalizeAttr(s) ==
    [i \in 1..Len(s) |-> IF s[i] \in {NL, "\t", "\r"} THEN " " ELSE s[i]]

ValidTag(tok) ==
    /\ ValidName(tok.name)
    /\ \A i \in 1..Len(tok.attrs) :
          /\ ValidName(tok.attrs[i].name)
          /\ WellFormedChars(tok.attrs[i].value)
          /\ \A j \in 1..Len(tok.attrs) : tok.attrs[i].name = tok.attrs[j].name => i = j

DomAttrs(tok) ==
    [i \in 1..Len(tok.attrs) |->
        Attr(tok.attrs[i].name, NormalizeAttr(Unescape(tok.attrs[i].value)))]

\* adjacent character data is one text node
AppendText(nodes, value) ==
    IF nodes # <<>> /\ nodes[Len(nodes)].kind = "text"
    THEN [nodes EXCEPT ![Len(nodes)] = TextNode(@.value \o value)]
    ELSE Append(nodes, TextNode(value))

ParseFailed == [ok |-> FALSE, nodes |-> <<>>, next |-> 0]

\* the sibling nodes from token i up to the enclosing close tag or the end
RECURSIVE ParseNodes(_, _, _)
ParseNodes(tokens, i, acc) ==
    IF i > Len(tokens) \/ tokens[i].kind = "close"
    THEN [ok |-> TRUE, nodes |-> acc, next |-> i]
    ELSE LET tok == tokens[i]
         IN  CASE tok.kind = "text" ->
                      IF WellFormedChars(tok.chars)
                      THEN ParseNodes(tokens, i + 1, AppendText(acc, Unescape(tok.chars)))
                      ELSE ParseFailed
               [] tok.kind = "empty" ->
                      IF ValidTag(tok)
                      THEN ParseNodes(tokens, i + 1,
                               Append(acc, Element(tok.name, DomAttrs(tok), <<>>)))
                      ELSE ParseFailed
               [] tok.kind = "open" ->
                      IF ~ValidTag(tok) THEN ParseFailed
                      ELSE LET inner == ParseNodes(tokens, i + 1, <<>>)
                           IN  IF /\ inner.ok
                                  /\ inner.next <= Len(tokens)
                                  /\ tokens[inner.next].name = tok.name
                               THEN ParseNodes(tokens, inner.next + 1,
                                        Append(acc, Element(tok.name, DomAttrs(tok),
                                                            inner.nodes)))
                               ELSE ParseFailed
               [] OTHER -> ParseFailed

\* the document: an optional declaration at the very start, then exactly one
\* element, with nothing but white space around it
parseFromString(tokens) ==
    LET body == IF tokens # <<>> /\ tokens[1].kind = "decl" THEN Tail(tokens) ELSE tokens
        r == ParseNodes(body, 1, <<>>)
        elements == {i \in 1..Len(r.nodes) : r.nodes[i].kind = "element"}
    IN  IF /\ r.ok
           /\ r.next = Len(body) + 1
           /\ Cardinality(elements) = 1
           /\ \A i \in 1..Len(r.nodes) :
                 r.nodes[i].kind = "text" => Trim(r.nodes[i].value) = <<>>
        THEN [ok |-> TRUE, documentElement |-> r.nodes[CHOOSE i \in elements : TRUE]]
        ELSE [ok |-> FALSE, documentElement |-> TextNode(<<>>)]

(***************************************************************************)
(* XmlToJsonConverter                                                      *)
(***************************************************************************)
\* a string isNaN and parseFloat both accept; the strings of the model hold
\* no sign, point or exponent, so these are the strings of digits
IsNumeric(s) == Trim(s) # <<>> /\ \A i \in 1..Len(Trim(s)) : Trim(s)[i] \in Digits

\* String(parseFloat(s)) for a string of digits: no leading zeros
RECURSIVE StripZeros(_)
StripZeros(s) == IF Len(s) > 1 /\ Head(s) = "0" THEN StripZeros(Tail(s)) ELSE s

parseValue(value, o) ==
    IF ~o.parseNumbers /\ ~o.parseBooleans THEN Str(value)
    ELSE IF o.parseBooleans /\ ToLowerCase(value) = True.v THEN True
    ELSE IF o.parseBooleans /\ ToLowerCase(value) = False.v THEN False
    ELSE IF o.parseNumbers /\ IsNumeric(value) THEN Num(StripZeros(Trim(value)))
    ELSE Str(value)

\* the loop over xmlNode.attributes
RECURSIVE AttributeLoop(_, _, _, _)
AttributeLoop(attrs, i, result, o) ==
    IF i > Len(attrs) THEN result
    ELSE AttributeLoop(attrs, i + 1,
             ObjSet(result, o.attributePrefix \o attrs[i].name,
                    parseValue(attrs[i].value, o)), o)

RECURSIVE xmlToJson(_, _)
RECURSIVE ChildLoop(_, _, _, _)

\* the text always stored under textNodeName, never returned on its own
ChildLoop_NoCollapse(children, i, result, o) ==
    IF i > Len(children)
    THEN IF result = <<>> THEN Null ELSE Map(result)
    ELSE IF children[i].kind = "text"
    THEN LET textContent == Trim(children[i].value)
         IN  IF textContent # <<>>
             THEN ChildLoop(children, i + 1,
                      ObjSet(result, o.textNodeName, parseValue(textContent, o)), o)
             ELSE ChildLoop(children, i + 1, result, o)
    ELSE LET childName == children[i].name
             childValue == xmlToJson(children[i], o)
             existing == Lookup(Map(result), childName)
         IN  IF Truthy(existing)
             THEN ChildLoop(children, i + 1,
                      ObjSet(result, childName,
                             IF IsArray(existing)
                             THEN List(Append(existing.v, childValue))
                             ELSE List(<<existing, childValue>>)), o)
             ELSE ChildLoop(children, i + 1, ObjSet(result, childName, childValue), o)

\* the loop over xmlNode.childNodes from child i on, and the final return
ChildLoop(children, i, result, o) ==
    IF i > Len(children)
    THEN IF result = <<>> THEN Null ELSE Map(result)
    ELSE IF children[i].kind = "text"
    THEN LET textContent == Trim(children[i].value)
         IN  IF textContent # <<>>
             THEN IF result = <<>>
                  THEN parseValue(textContent, o)
                  ELSE ChildLoop(children, i + 1,
                           ObjSet(result, o.textNodeName, parseValue(textContent, o)), o)
             ELSE ChildLoop(children, i + 1, result, o)
    ELSE LET childName == children[i].name
             childValue == xmlToJson(children[i], o)
             existing == Lookup(Map(result), childName)
         IN  IF Truthy(existing)
             THEN ChildLoop(children, i + 1,
                      ObjSet(result, childName,
                             IF IsArray(existing)
                             THEN List(Append(existing.v, childValue))
                             ELSE List(<<existing, childValue>>)), o)
             ELSE ChildLoop(children, i + 1, ObjSet(result, childName, childValue), o)

xmlToJson(xmlNode, o) ==
    ChildLoop(xmlNode.children, 1,
              IF Len(xmlNode.attrs) > 0 /\ ~o.ignoreAttributes
              THEN AttributeLoop(xmlNode.attrs, 1, <<>>, o)
              ELSE <<>>,
              o)

XmlToJsonConverter_convert(xmlText, o) ==
    LET xmlDoc == parseFromString(xmlText)
    IN  IF xmlDoc.ok THEN Ok(xmlToJson(xmlDoc.documentElement, o))
        ELSE Throw("XmlParsingFailed")

(***************************************************************************)
(* Inputs of the XML scenarios.                                            *)
(***************************************************************************)
TextKey == <<"#", "t", "e", "x", "t">>

XmlDefaults ==
    [rootElementName |-> DefaultRoot,
     attributePrefix |-> <<"@">>,
     textNodeName |-> TextKey,
     arrayElementName |-> <<"i", "t", "e", "m">>,
     prettyPrint |-> TRUE,
     xmlDeclaration |-> TRUE,
     encoding |-> <<"U", "T", "F", "-", "8">>,
     ignoreAttributes |-> FALSE,
     parseNumbers |-> TRUE,
     parseBooleans |-> TRUE]

XmlEncodeOptions ==
    {[XmlDefaults EXCEPT !.rootElementName = r, !.prettyPrint = p, !.xmlDeclaration = d] :
        r \in {DefaultRoot, <<"x">>}, p \in BOOLEAN, d \in BOOLEAN}

XmlDecodeOptions ==
    {[XmlDefaults EXCEPT !.ignoreAttributes = i, !.parseNumbers = n, !.parseBooleans = b] :
        i \in BOOLEAN, n \in BOOLEAN, b \in BOOLEAN}

DefaultDecode(o) == ~o.ignoreAttributes /\ o.parseNumbers /\ o.parseBooleans

XScalars == {Null, False, Num(<<"0">>), Str(<<>>), Str(<<"a">>), Str(<<"<">>)}

XKeys == {<<"a">>, <<"b">>, <<"@", "a">>, TextKey}

KeySeqs(n) == {ks \in [1..n -> XKeys] : \A i, j \in 1..n : ks[i] = ks[j] => i = j}

\* the maps of at most w entries and the lists of at most w items
MapsOver(vals, w) ==
    UNION {{Map([i \in 1..n |-> Entry(ks[i], vs[i])]) : ks \in KeySeqs(n), vs \in [1..n -> vals]}
           : n \in 0..w}

ListsOver(vals, w) == UNION {{List(items) : items \in [1..n -> vals]} : n \in 0..w}

XContainers(w) == MapsOver(XScalars, w) \cup ListsOver(XScalars, w)

XValues(w) ==
    XScalars \cup {True, Num(<<"7">>)} \cup XContainers(w)
        \cup {Map(<<Entry(<<"b">>, x)>>) : x \in XContainers(w - 1)}
        \cup {List(<<x>>) : x \in XContainers(w - 1)}

\* the JSON values handed to the encoder: a scalar, a list, a map, or a map
\* with the single root key a
XmlJsonInputs(w) ==
    {Malformed} \cup XScalars \cup XContainers(w)
        \cup {Map(<<Entry(<<"a">>, x)>>) : x \in XValues(w)}

RECURSIVE Concat(_)
Concat(seqs) == IF seqs = <<>> THEN <<>> ELSE Head(seqs) \o Concat(Tail(seqs))

\* the text of an element: <name/> when it has no content
Tag(name, attrs, content) ==
    IF content = <<>> THEN <<Empty(name, attrs)>>
    ELSE <<Open(name, attrs)>> \o content \o <<Close(name)>>

LeafContents ==
    {<<>>, <<Text(<<"0">>)>>, <<Text(False.v)>>, <<Text(<<"a">>)>>, <<Empty(<<"c">>, <<>>)>>}

XAttr == Attr(<<"x">>, <<"1">>)

\* the child nodes a raw XML text is put together from
XItems ==
    {Tag(<<"a">>, <<>>, c) : c \in LeafContents}
        \cup {Tag(<<"a">>, <<XAttr>>, <<>>), Tag(<<"b">>, <<>>, <<>>),
              Tag(<<"b">>, <<>>, <<Text(<<"a">>)>>), <<Text(<<"a">>)>>,
              <<Text(<<" ">>)>>}

\* the raw XML texts: a root element r with at most maxChildren child nodes,
\* the empty text and an unclosed tag
XmlDocs(maxChildren) ==
    {<<>>, <<Open(<<"r">>, <<>>)>>}
        \cup UNION {{Tag(<<"r">>, attrs, Concat(items)) :
                        attrs \in {<<>>, <<XAttr>>}, items \in [1..n -> XItems]}
                    : n \in 0..maxChildren}

(***************************************************************************)
(* SpecXmlDecode: xml-to-json on a raw XML text.                           *)
(* SpecXml: json-to-xml on a JSON value, then xml-to-json on its output.   *)
(***************************************************************************)
InitXmlDecode ==
    /\ pc = "xml"
    /\ jsonData = Undefined
    /\ text \in XmlDocs(MaxChildren)
    /\ opts \in XmlDecodeOptions
    /\ out = NoResult
    /\ batch = Idle

InitXml ==
    /\ pc = "json"
    /\ jsonData \in XmlJsonInputs(MaxWidth)
    /\ text = <<>>
    /\ opts \in XmlEncodeOptions
    /\ out = NoResult
    /\ batch = Idle

\* JsonToXmlConverter.convert on the JSON file
JsonToXml ==
    /\ pc = "json"
    /\ LET r == JsonToXmlConverter_convert(jsonData, opts)
       IN  /\ out' = r
           /\ text' = r.data
           /\ pc' = IF r.ok THEN "encoded" ELSE "failed"
    /\ UNCHANGED <<jsonData, opts, batch>>

\* XmlToJsonConverter.convert on the XML file (raw, or the encoder's output)
XmlToJson ==
    /\ pc \in {"xml", "encoded"}
    /\ out' = XmlToJsonConverter_convert(text, opts)
    /\ pc' = IF pc = "xml" THEN "decoded" ELSE "roundtrip"
    /\ UNCHANGED <<jsonData, text, opts, batch>>

NextXmlDecode == XmlToJson

NextXml == JsonToXml \/ XmlToJson

SpecXmlDecode == InitXmlDecode /\ [][NextXmlDecode]_vars

SpecXml == InitXml /\ [][NextXml]_vars

(***************************************************************************)
(* Properties of the XML codec.                                            *)
(***************************************************************************)
\* a value with the numeric and boolean coercion of the decoder applied to
\* its scalar strings
RECURSIVE Coerced(_)
Coerced(x) ==
    CASE x.t = "str" -> parseValue(x.v, XmlDefaults)
      [] x.t = "list" -> List([i \in 1..Len(x.v) |-> Coerced(x.v[i])])
      [] x.t = "map" -> Map([i \in 1..Len(x.v) |-> Entry(x.v[i].k, Coerced(x.v[i].val))])
      [] OTHER -> x

SingleRootKey(x) == x.t = "map" /\ Len(x.v) = 1

\* C3: XML encode-then-decode round trip.  Decoding (default options) the
\* XML text that jsonToXml produced from a map with exactly one root key
\* yields a value equal to the map, root key included, up to the numeric and
\* boolean coercion of scalar strings.
C3_XmlRoundTrip ==
    (pc = "roundtrip" /\ SingleRootKey(jsonData) /\ DefaultDecode(opts))
        => (out.ok /\ out.data = Coerced(jsonData))

\* the root element of the decoded XML text
RootElement == parseFromString(text).documentElement

ChildElements(node, name) ==
    SelectSeq(node.children, LAMBDA c : c.kind = "element" /\ c.name = name)

ChildNames(node) ==
    {node.children[i].name : i \in {j \in 1..Len(node.children) :
                                        node.children[j].kind = "element"}}

\* C5: sibling folding on XML decode.  For an element with k >= 2 child
\* elements of the same name, the decoded map holds under that name the list
\* of the k decoded children in document order.
C5_SiblingFolding ==
    (pc = "decoded" /\ out.ok)
        => \A name \in ChildNames(RootElement) :
              LET same == ChildElements(RootElement, name)
              IN  Len(same) >= 2
                    => /\ out.data.t = "map"
                       /\ Lookup(out.data, name) =
                              List([i \in 1..Len(same) |-> xmlToJson(same[i], opts)])

\* C6: XML encoding is total.  jsonToXml returns XML text for every parsed
\* JSON value; JSON-to-XML conversion fails only on malformed JSON text.
C6_XmlEncodeTotal ==
    (pc \in {"encoded", "failed"} /\ jsonData # Malformed) => out.ok

\* the per-type dispatch of a value at an element name
EncodeAt(value, name, o) ==
    IF IsArray(value) THEN arrayToXml(value, name, 0, o)
    ELSE IF value.t = "map" THEN objectToXml(value, name, 0, o)
    ELSE primitiveToXml(value, name, 0, o)

Declaration(o) == IF o.xmlDeclaration THEN <<Decl(o.encoding), Text(<<NL>>)>> ELSE <<>>

\* C8: root promotion on XML encode.  For a root map with exactly one key k
\* and value v the output is, after the optional declaration, the encoding of
\* v at element name k under the per-type dispatch (a map gives the element
\* with its attributes and children, a scalar <k>text</k>, null <k/>, a list
\* repeated <k> siblings), whatever the configured root name.
C8_RootPromotion ==
    (pc \in {"encoded", "failed"} /\ SingleRootKey(jsonData))
        => /\ out.ok
           /\ out.data = Declaration(opts)
                             \o EncodeAt(jsonData.v[1].val, jsonData.v[1].k, opts)

(***************************************************************************)
(* OmniConvertCore.convertMultiple: the batch driver.                      *)
(*                                                                         *)
(* batch is the state of one call: the instance (its options and the       *)
(* registry of converter names), the arguments, what each file's           *)
(* conversion and download will do, the loop index, the results pushed so  *)
(* far, the reports made to the callbacks and the downloads triggered.     *)
(* The callbacks the caller supplies return normally.                      *)
(***************************************************************************)
\* this.converters after OmniConvert's constructor ran registerAllConverters
registerAllConverters ==
    {"jpg-to-png", "png-to-jpg", "webp-to-jpg", "png-to-webp", "jpg-to-webp",
     "heic-to-jpg", "svg-to-png", "jpg-to-pdf",
     "csv-to-json", "json-to-csv", "xml-to-json", "json-to-xml",
     "markdown-to-html"}

\* the types convertMultiple is called with: an image converter, a data
\* converter and a type that is not registered
ConverterTypes == {"jpg-to-png", "csv-to-json", "gif-to-mp4"}

\* what converter.convert(file) does: resolves with a result that holds a
\* blob, resolves with a result without one, or rejects
ConvertOutcomes == {"blob", "noBlob", "throws"}

\* what OmniConvertCore.downloadFile does when it is called for the file
DownloadOutcomes == {"ok", "throws"}

BatchFiles(maxFiles) ==
    UNION {[1..n -> [convert : ConvertOutcomes, download : DownloadOutcomes]]
           : n \in 0..maxFiles}

SuccessRecord(i) == [success |-> TRUE, file |-> i, error |-> ""]
FailureRecord(i, message) == [success |-> FALSE, file |-> i, error |-> message]

InitBatch ==
    /\ pc = "batch"
    /\ jsonData = Undefined
    /\ text = <<>>
    /\ opts = <<>>
    /\ out = NoResult
    /\ \E files \in BatchFiles(MaxFiles), type \in ConverterTypes, auto \in BOOLEAN,
          callAuto \in {"unset", "true", "false"} :
          batch = [state |-> "called",
                   autoDownload |-> auto,        \* this.options.autoDownload
                   converters |-> registerAllConverters,    \* this.converters
                   type |-> type,
                   files |-> files,
                   callAutoDownload |-> callAuto,  \* options.autoDownload of the call
                   i |-> 0,
                   converting |-> 0,
                   started |-> <<>>,     \* the files convert was called on, in call order
                   pending |-> {},       \* the files whose convert has not settled yet
                   results |-> <<>>,
                   progress |-> <<>>,
                   errors |-> <<>>,
                   downloads |-> <<>>,
                   summary |-> <<>>]

\* const converter = this.createConverter(type, options): throws when the
\* type is not registered, and convertMultiple rejects
CreateConverter ==
    /\ pc = "batch"
    /\ batch.state = "called"
    /\ batch' = [batch EXCEPT !.state =
                    IF batch.type \in batch.converters THEN "loop" ELSE "rejected"]
    /\ UNCHANGED <<pc, jsonData, text, opts, out>>

\* the loop without the await: the next conversion is started while the
\* last one is still pending
StartConversion_NoAwait ==
    /\ pc = "batch"
    /\ batch.state \in {"loop", "converting"}
    /\ Len(batch.started) < Len(batch.files)
    /\ batch' = [batch EXCEPT !.state = "converting",
                              !.converting = Len(batch.started) + 1,
                              !.started = Append(@, Len(batch.started) + 1),
                              !.pending = @ \cup {Len(batch.started) + 1},
                              !.progress = Append(@, <<batch.i * 100, Len(batch.files)>>)]
    /\ UNCHANGED <<pc, jsonData, text, opts, out>>

\* the loop test, this.progress((i / files.length) * 100, ...) and the call
\* of converter.convert(files[i]), up to the await
StartConversion ==
    /\ pc = "batch"
    /\ batch.state = "loop"
    /\ batch.i < Len(batch.files)
    /\ batch' = [batch EXCEPT !.state = "converting",
                              !.converting = batch.i + 1,
                              !.started = Append(@, batch.i + 1),
                              !.pending = @ \cup {batch.i + 1},
                              !.progress = Append(@, <<batch.i * 100, Len(batch.files)>>)]
    /\ UNCHANGED <<pc, jsonData, text, opts, out>>

\* the awaited conversion resolves: the success record is pushed, then the
\* result is downloaded when this.options.autoDownload && result.blob; a
\* download that throws lands in the catch block, which pushes a failure
\* record for the same file and reports the error
ConvertResolves ==
    /\ pc = "batch"
    /\ batch.state = "converting"
    /\ LET file == batch.files[batch.converting]
           pushed == Append(batch.results, SuccessRecord(batch.converting))
           downloading == batch.autoDownload /\ file.convert = "blob"
       IN  /\ file.convert \in {"blob", "noBlob"}
           /\ batch' =
                 IF downloading /\ file.download = "throws"
                 THEN [batch EXCEPT !.state = "loop",
                                    !.i = @ + 1,
                                    !.converting = 0,
                                    !.pending = @ \ {batch.converting},
                                    !.results = Append(pushed,
                                        FailureRecord(batch.converting, "download failed")),
                                    !.errors = Append(@, batch.converting)]
                 ELSE [batch EXCEPT !.state = "loop",
                                    !.i = @ + 1,
                                    !.converting = 0,
                                    !.pending = @ \ {batch.converting},
                                    !.results = pushed,
                                    !.downloads = IF downloading
                                                  THEN Append(@, batch.converting)
                                                  ELSE @]
    /\ UNCHANGED <<pc, jsonData, text, opts, out>>

\* the awaited conversion rejects: the catch block pushes a failure record
\* and reports the error
ConvertRejects ==
    /\ pc = "batch"
    /\ batch.state = "converting"
    /\ batch.files[batch.converting].convert = "throws"
    /\ batch' = [batch EXCEPT !.state = "loop",
                              !.i = @ + 1,
                              !.converting = 0,
                              !.pending = @ \ {batch.converting},
                              !.results = Append(@,
                                  FailureRecord(batch.converting, "conversion failed")),
                              !.errors = Append(@, batch.converting)]
    /\ UNCHANGED <<pc, jsonData, text, opts, out>>

\* the return without the closing this.progress(100, ...)
ReturnResults_NoFinalProgress ==
    /\ pc = "batch"
    /\ batch.state = "loop"
    /\ batch.i = Len(batch.files)
    /\ batch' = [batch EXCEPT !.state = "returned",
                              !.summary = <<Cardinality({k \in 1..Len(batch.results) :
                                                            batch.results[k].success}),
                                            Len(batch.files)>>]
    /\ UNCHANGED <<pc, jsonData, text, opts, out>>

\* after the loop: this.progress(100, ...), this.success(...), return results
ReturnResults ==
    /\ pc = "batch"
    /\ batch.state = "loop"
    /\ batch.i = Len(batch.files)
    /\ batch' = [batch EXCEPT !.state = "returned",
                              !.progress = Append(@, <<100, 1>>),
                              !.summary = <<Cardinality({k \in 1..Len(batch.results) :
                                                            batch.results[k].success}),
                                            Len(batch.files)>>]
    /\ UNCHANGED <<pc, jsonData, text, opts, out>>

NextBatch ==
    \/ CreateConverter
    \/ StartConversion
    \/ ConvertResolves
    \/ ConvertRejects
    \/ ReturnResults

SpecBatch == InitBatch /\ [][NextBatch]_vars

(***************************************************************************)
(* Properties of the batch driver.                                         *)
(***************************************************************************)
\* file i was converted successfully: its conversion resolved and the
\* download of its result, when one is made, did not throw
ConvertedSuccessfully(i) ==
    /\ batch.files[i].convert # "throws"
    /\ ~(batch.autoDownload /\ batch.files[i].convert = "blob"
            /\ batch.files[i].download = "throws")

\* C4: batch conversion never aborts on an item failure.  Whatever each
\* file's conversion and download do, convertMultiple returns exactly one
\* record per input file, in input order, with success = true iff the file
\* was converted successfully and with the error message otherwise.
C4_BatchOneRecordPerFile ==
    (pc = "batch" /\ batch.state = "returned")
        => /\ Len(batch.results) = Len(batch.files)
           /\ \A i \in 1..Len(batch.results) :
                 /\ batch.results[i].file = i
                 /\ batch.results[i].success = ConvertedSuccessfully(i)
                 /\ ~batch.results[i].success => batch.results[i].error # ""

\* C18: batch processing is strictly sequential.  The conversion of file
\* i+1 does not start until the conversion of file i has completed with
\* success or failure: at most one conversion is in progress at any time,
\* files are started in input order, and every file before the one in
\* progress has its record.
C18_BatchSequential ==
    pc = "batch"
        => /\ Cardinality(batch.pending) <= 1
           /\ \A k \in 1..Len(batch.started) : batch.started[k] = k
           /\ \A f \in batch.pending : \A g \in 1..(f - 1) :
                 \E r \in 1..Len(batch.results) : batch.results[r].file = g

\* the second file's conversion is in progress after the first one failed
C18_Witness ==
    /\ pc = "batch"
    /\ batch.state = "converting"
    /\ batch.pending = {2}
    /\ batch.files[1].convert = "throws"
    /\ batch.results = <<FailureRecord(1, "conversion failed")>>

(***************************************************************************)
(* SpecSanitize: sanitizeElementName / sanitizeAttributeName applied to a  *)
(* name, then applied again to their own result.                           *)
(***************************************************************************)
\* characters of each class the two patterns tell apart: a letter, a digit,
\* the three punctuation marks allowed inside a name, and two others
NameAlphabet == {"a", "1", "-", ".", "_", " ", "<"}

Names(maxLen) == UNION {[1..n -> NameAlphabet] : n \in 0..maxLen}

Sanitizers == {"sanitizeElementName", "sanitizeAttributeName"}

InitSanitize ==
    /\ pc = "name"
    /\ jsonData = Undefined
    /\ text \in Names(MaxName)
    /\ opts \in [sanitizer : Sanitizers]
    /\ out = NoResult
    /\ batch = Idle

\* this.sanitizeElementName(s) or this.sanitizeAttributeName(s): on the name
\* first, on the returned name next
Sanitize ==
    /\ pc \in {"name", "sanitized"}
    /\ LET s == IF pc = "name" THEN text ELSE out.data
           r == IF opts.sanitizer = "sanitizeElementName"
                THEN sanitizeElementName(s) ELSE sanitizeAttributeName(s)
       IN  IF pc = "name"
           THEN /\ out' = Ok(r)
                /\ jsonData' = jsonData
                /\ pc' = "sanitized"
           ELSE /\ jsonData' = Str(r)
                /\ out' = out
                /\ pc' = "resanitized"
    /\ UNCHANGED <<text, opts, batch>>

NextSanitize == Sanitize

SpecSanitize == InitSanitize /\ [][NextSanitize]_vars

\* C11: name sanitization is idempotent.  For every name, the empty one and
\* those starting with a digit, dot or hyphen included, sanitizing the
\* sanitized name gives the sanitized name again, for sanitizeElementName
\* and for sanitizeAttributeName.
C11_SanitizeIdempotent ==
    pc = "resanitized" => jsonData = Str(out.data)

\* a name starting with a digit, changed by the first pass, sanitized twice
C11_Witness ==
    /\ pc = "resanitized"
    /\ opts.sanitizer = "sanitizeElementName"
    /\ Len(text) >= 2
    /\ text[1] \in Digits
    /\ text[2] \in Digits
    /\ out.data # text

(***************************************************************************)
(* MarkdownToHtmlConverter.  The Markdown text and the HTML text are       *)
(* strings of characters; each html.replace(pattern, replacement) of       *)
(* markdownToHtml is an operator that rewrites the string the way the      *)
(* pattern matches it: leftmost match first, then on from the end of the   *)
(* match.                                                                  *)
(***************************************************************************)
H3Open == <<"<", "h", "3", ">">>
H3Close == <<"<", "/", "h", "3", ">">>
H2Open == <<"<", "h", "2", ">">>
H2Close == <<"<", "/", "h", "2", ">">>
H1Open == <<"<", "h", "1", ">">>
H1Close == <<"<", "/", "h", "1", ">">>
StrongOpen == <<"<", "s", "t", "r", "o", "n", "g", ">">>
StrongClose == <<"<", "/", "s", "t", "r", "o", "n", "g", ">">>
EmOpen == <<"<", "e", "m", ">">>
EmClose == <<"<", "/", "e", "m", ">">>
DelOpen == <<"<", "d", "e", "l", ">">>
DelClose == <<"<", "/", "d", "e", "l", ">">>
PreCodeOpen == <<"<", "p", "r", "e", ">", "<", "c", "o", "d", "e", ">">>
PreCodeClose ==
    <<"<", "/", "c", "o", "d", "e", ">", "<", "/", "p", "r", "e", ">">>
CodeOpen == <<"<", "c", "o", "d", "e", ">">>
CodeClose == <<"<", "/", "c", "o", "d", "e", ">">>
AOpen == <<"<", "a", " ", "h", "r", "e", "f", "=", "\"">>
AMid == <<"\"", ">">>
AClose == <<"<", "/", "a", ">">>
ImgOpen == <<"<", "i", "m", "g", " ", "a", "l", "t", "=", "\"">>
ImgMid == <<"\"", " ", "s", "r", "c", "=", "\"">>
ImgClose == <<"\"", " ", "/", ">">>
LiOpen == <<"<", "l", "i", ">">>
LiClose == <<"<", "/", "l", "i", ">">>
UlOpen == <<"<", "u", "l", ">">>
UlClose == <<"<", "/", "u", "l", ">">>
OlOpen == <<"<", "o", "l", ">">>
OlClose == <<"<", "/", "o", "l", ">">>
CheckboxOpen ==
    <<"<", "l", "i", ">", "<", "i", "n", "p", "u", "t", " ", "t", "y", "p",
      "e", "=", "\"", "c", "h", "e", "c", "k", "b", "o", "x", "\"", " ",
      "d", "i", "s", "a", "b", "l", "e", "d", ">", " ">>
CheckboxCheckedOpen ==
    <<"<", "l", "i", ">", "<", "i", "n", "p", "u", "t", " ", "t", "y", "p",
      "e", "=", "\"", "c", "h", "e", "c", "k", "b", "o", "x", "\"", " ",
      "c", "h", "e", "c", "k", "e", "d", " ", "d", "i", "s", "a", "b", "l",
      "e", "d", ">", " ">>
Hr == <<"<", "h", "r", ">">>
BlockquoteOpen ==
    <<"<", "b", "l", "o", "c", "k", "q", "u", "o", "t", "e", ">">>
BlockquoteClose ==
    <<"<", "/", "b", "l", "o", "c", "k", "q", "u", "o", "t", "e", ">">>
TableOpen ==
    <<"<", "t", "a", "b", "l", "e", ">", "<", "t", "h", "e", "a", "d", ">",
      "<", "t", "r", ">">>
TheadClose ==
    <<"<", "/", "t", "r", ">", "<", "/", "t", "h", "e", "a", "d", ">", "<",
      "t", "b", "o", "d", "y", ">">>
TableClose ==
    <<"<", "/", "t", "b", "o", "d", "y", ">", "<", "/", "t", "a", "b", "l",
      "e", ">">>
ThOpen == <<"<", "t", "h", ">">>
ThClose == <<"<", "/", "t", "h", ">">>
TdOpen == <<"<", "t", "d", ">">>
TdClose == <<"<", "/", "t", "d", ">">>
TrOpen == <<"<", "t", "r", ">">>
TrClose == <<"<", "/", "t", "r", ">">>
ParagraphBreak == <<"<", "/", "p", ">", "<", "p", ">">>
Br == <<"<", "b", "r", ">">>
POpen == <<"<", "p", ">">>
PClose == <<"<", "/", "p", ">">>

\* the string p stands in s at position i
MatchesAt(s, i, p) ==
    /\ i + Len(p) - 1 <= Len(s)
    /\ \A k \in 1..Len(p) : s[i + k - 1] = p[k]

\* String.prototype.includes for a string needle
IncludesString(s, p) == \E i \in 1..(Len(s) - Len(p) + 1) : MatchesAt(s, i, p)

SetMin(S) == CHOOSE x \in S : \A y \in S : x <= y
SetMax(S) == CHOOSE x \in S : \A y \in S : x >= y

\* the grave accent, which a TLA+ string cannot hold
Backtick == "grave"

\* characters the pattern character "." does not match
LineTerminators == {NL, "\r"}

\* the positions where the closing delimiter of a pattern open(X)close can
\* stand: after the opening one, with no excluded character before it
Closers(s, from, close, excluded) ==
    {j \in from..(Len(s) - Len(close) + 1) :
        /\ MatchesAt(s, j, close)
        /\ \A k \in from..(j - 1) : s[k] \notin excluded}

\* html.replace(/open(X)close/, before + $1 + after) where X is a run of
\* characters outside p.excluded, shortest first (lazy) or longest first (greedy);
\* with p.keep the delimiters are part of $1; with p.global every match is
\* replaced, else the first one only
RECURSIVE ReplaceDelimited(_, _, _)
ReplaceDelimited(s, i, p) ==
    LET starts == {k \in i..Len(s) :
                      /\ MatchesAt(s, k, p.open)
                      /\ Closers(s, k + Len(p.open), p.close, p.excluded) # {}}
    IN  IF starts = {} THEN SubSeq(s, i, Len(s))
        ELSE LET k == SetMin(starts)
                 js == Closers(s, k + Len(p.open), p.close, p.excluded)
                 j == IF p.greedy THEN SetMax(js) ELSE SetMin(js)
                 content == SubSeq(s, k + Len(p.open), j - 1)
                 group == IF p.keep THEN p.open \o content \o p.close
                          ELSE content
                 end == j + Len(p.close)
             IN  SubSeq(s, i, k - 1) \o p.before \o group \o p.after
                   \o (IF p.global THEN ReplaceDelimited(s, end, p)
                       ELSE SubSeq(s, end, Len(s)))

Delimited(open, close, excluded, greedy, before, after) ==
    [open |-> open, close |-> close, excluded |-> excluded, greedy |-> greedy,
     before |-> before, after |-> after, keep |-> FALSE, global |-> TRUE]

\* the first position >= from where the character c stands, 0 when none
FirstIndex(s, from, c) ==
    LET ks == {k \in from..Len(s) : s[k] = c}
    IN  IF ks = {} THEN 0 ELSE SetMin(ks)

\* html.replace(/prefix\[([^\]]*?)\]\(([^\)]*?)\)/g, before + $a + mid + $b + after):
\* $1 runs to the first "]", which "(" must follow, $2 to the first ")"
\* the position of the ")" that ends a match starting at i, 0 when none
BracketedEnd(s, i, prefix) ==
    LET k == IF MatchesAt(s, i, prefix)
             THEN FirstIndex(s, i + Len(prefix), "]") ELSE 0
    IN  IF k # 0 /\ k + 1 <= Len(s) /\ s[k + 1] = "("
        THEN FirstIndex(s, k + 2, ")") ELSE 0

RECURSIVE ReplaceBracketed(_, _, _)
ReplaceBracketed(s, i, p) ==
    LET starts == {k \in i..Len(s) : BracketedEnd(s, k, p.prefix) # 0}
    IN  IF starts = {} THEN SubSeq(s, i, Len(s))
        ELSE LET b == SetMin(starts)
                 a == b + Len(p.prefix)
                 k == FirstIndex(s, a, "]")
                 m == BracketedEnd(s, b, p.prefix)
                 g1 == SubSeq(s, a, k - 1)
                 g2 == SubSeq(s, k + 2, m - 1)
             IN  SubSeq(s, i, b - 1) \o p.before
                   \o (IF p.first = 1 THEN g1 ELSE g2)
                   \o p.mid \o (IF p.first = 1 THEN g2 ELSE g1)
                   \o p.after \o ReplaceBracketed(s, m + 1, p)

\* html.replace(/pattern/g, replacement) for a pattern that is a plain string
RECURSIVE ReplaceString(_, _, _, _)
ReplaceString(s, i, pattern, replacement) ==
    LET starts == {k \in i..Len(s) : MatchesAt(s, k, pattern)}
    IN  IF starts = {} THEN SubSeq(s, i, Len(s))
        ELSE LET k == SetMin(starts)
             IN  SubSeq(s, i, k - 1) \o replacement
                   \o ReplaceString(s, k + Len(pattern), pattern, replacement)

\* one line under html.replace(/^prefix(.*$)/gim, before + $1 + after)
PrefixLine(line, prefix, before, after) ==
    IF StartsWith(line, prefix)
    THEN before \o SubSeq(line, Len(prefix) + 1, Len(line)) \o after
    ELSE line

\* the number of digits the line starts with
RECURSIVE LeadingDigits(_)
LeadingDigits(line) ==
    IF line # <<>> /\ Head(line) \in Digits
    THEN 1 + LeadingDigits(Tail(line)) ELSE 0

\* one line under html.replace(/^\d+\. (.*$)/gim, '<li>$1</li>')
OrderedLine(line) ==
    LET n == LeadingDigits(line)
    IN  IF n >= 1 /\ MatchesAt(line, n + 1, <<".", " ">>)
        THEN LiOpen \o SubSeq(line, n + 3, Len(line)) \o LiClose
        ELSE line

\* the checked pattern replaced as the unchecked one is
CheckedLine_Unchecked(line) ==
    PrefixLine(PrefixLine(line, <<"-", " ", "[", "x", "]", " ">>,
                          CheckboxOpen, LiClose),
               <<"-", " ", "[", "X", "]", " ">>, CheckboxOpen, LiClose)

\* one line under html.replace(/^\- \[x\] (.*$)/gim, ...): the i flag lets
\* the pattern's x match X as well
CheckedLine(line) ==
    PrefixLine(PrefixLine(line, <<"-", " ", "[", "x", "]", " ">>,
                          CheckboxCheckedOpen, LiClose),
               <<"-", " ", "[", "X", "]", " ">>, CheckboxCheckedOpen, LiClose)

\* line.split('|').map(c => c.trim()).filter(c => c)
RECURSIVE NonEmptyTrimmed(_)
NonEmptyTrimmed(cells) ==
    IF cells = <<>> THEN <<>>
    ELSE (IF Trim(Head(cells)) = <<>> THEN <<>> ELSE <<Trim(Head(cells))>>)
             \o NonEmptyTrimmed(Tail(cells))

TableCells(line) == NonEmptyTrimmed(Split(line, "|"))

\* cells.forEach(cell => { tableHtml += '<td>' + cell + '</td>' })
RECURSIVE CellsHtml(_, _, _)
CellsHtml(cells, open, close) ==
    IF cells = <<>> THEN <<>>
    ELSE open \o Head(cells) \o close \o CellsHtml(Tail(cells), open, close)

RECURSIVE TableLoop(_, _, _, _, _)

\* a table still open after the last line pushed without its closing tags
TableLoop_NoFinalClose(lines, i, inTable, tableHtml, result) ==
    IF i > Len(lines)
    THEN IF inTable THEN Append(result, tableHtml) ELSE result
    ELSE LET line == Trim(lines[i])
             pipe == Includes(line, "|")
         IN  IF pipe /\ ~inTable
             THEN TableLoop(lines, i + 1, TRUE,
                            TableOpen \o CellsHtml(TableCells(line), ThOpen, ThClose)
                                \o TheadClose,
                            result)
             ELSE IF pipe /\ inTable /\ ~IncludesString(line, <<"-", "-", "-">>)
             THEN TableLoop(lines, i + 1, TRUE,
                            tableHtml \o TrOpen
                                \o CellsHtml(TableCells(line), TdOpen, TdClose)
                                \o TrClose,
                            result)
             ELSE IF inTable /\ ~pipe
             THEN TableLoop(lines, i + 1, FALSE, tableHtml,
                            result \o <<tableHtml \o TableClose, line>>)
             ELSE IF ~inTable
             THEN TableLoop(lines, i + 1, FALSE, tableHtml, Append(result, line))
             ELSE TableLoop(lines, i + 1, inTable, tableHtml, result)

\* the loop of convertTables over the lines, and what follows it
TableLoop(lines, i, inTable, tableHtml, result) ==
    IF i > Len(lines)
    THEN IF inTable THEN Append(result, tableHtml \o TableClose) ELSE result
    ELSE LET line == Trim(lines[i])
             pipe == Includes(line, "|")
         IN  IF pipe /\ ~inTable
             THEN TableLoop(lines, i + 1, TRUE,
                            TableOpen \o CellsHtml(TableCells(line), ThOpen, ThClose)
                                \o TheadClose,
                            result)
             ELSE IF pipe /\ inTable /\ ~IncludesString(line, <<"-", "-", "-">>)
             THEN TableLoop(lines, i + 1, TRUE,
                            tableHtml \o TrOpen
                                \o CellsHtml(TableCells(line), TdOpen, TdClose)
                                \o TrClose,
                            result)
             ELSE IF inTable /\ ~pipe
             THEN TableLoop(lines, i + 1, FALSE, tableHtml,
                            result \o <<tableHtml \o TableClose, line>>)
             ELSE IF ~inTable
             THEN TableLoop(lines, i + 1, FALSE, tableHtml, Append(result, line))
             ELSE TableLoop(lines, i + 1, inTable, tableHtml, result)

convertTables(html) ==
    Join(TableLoop(Split(html, NL), 1, FALSE, <<>>, <<>>), NL)

H3Line(line) == PrefixLine(line, <<"#", "#", "#", " ">>, H3Open, H3Close)
H2Line(line) == PrefixLine(line, <<"#", "#", " ">>, H2Open, H2Close)
H1Line(line) == PrefixLine(line, <<"#", " ">>, H1Open, H1Close)
BulletLine(line) == PrefixLine(line, <<"*", " ">>, LiOpen, LiClose)
UncheckedLine(line) ==
    PrefixLine(line, <<"-", " ", "[", " ", "]", " ">>, CheckboxOpen, LiClose)
HrLine(line) == IF line = <<"-", "-", "-">> THEN Hr ELSE line
BlockquoteLine(line) ==
    PrefixLine(line, <<">", " ">>, BlockquoteOpen, BlockquoteClose)

\* one line under the line-anchored pattern of the given name
ReplaceLine(pattern, line) ==
    CASE pattern = "h3" -> H3Line(line)
      [] pattern = "h2" -> H2Line(line)
      [] pattern = "h1" -> H1Line(line)
      [] pattern = "bullet" -> BulletLine(line)
      [] pattern = "ordered" -> OrderedLine(line)
      [] pattern = "unchecked" -> UncheckedLine(line)
      [] pattern = "checked" -> CheckedLine(line)
      [] pattern = "hr" -> HrLine(line)
      [] pattern = "blockquote" -> BlockquoteLine(line)

\* a pattern anchored with ^ under the m flag is tried at the start of every
\* line, and (.*$) takes the rest of that line: the replacement is made line
\* by line
MapLines(pattern, s) ==
    LET lines == Split(s, NL)
    IN  Join([i \in 1..Len(lines) |-> ReplaceLine(pattern, lines[i])], NL)

\* /(<li>.*<\/li>)/s, not global: from the first <li> to the last </li>
WrapItems(before, after) ==
    [open |-> LiOpen, close |-> LiClose, excluded |-> {}, greedy |-> TRUE,
     before |-> before, after |-> after, keep |-> TRUE, global |-> FALSE]

MarkdownDefaults ==
    [enableTables |-> TRUE, enableCodeBlocks |-> TRUE,
     enableStrikethrough |-> TRUE, enableTaskLists |-> TRUE]

markdownToHtml(markdown, o) ==
    LET headers == MapLines("h1", MapLines("h2", MapLines("h3", markdown)))
        bold1 == ReplaceDelimited(headers, 1,
                    Delimited(<<"*", "*">>, <<"*", "*">>, LineTerminators, TRUE,
                              StrongOpen, StrongClose))
        bold2 == ReplaceDelimited(bold1, 1,
                    Delimited(<<"_", "_">>, <<"_", "_">>, LineTerminators, FALSE,
                              StrongOpen, StrongClose))
        italic1 == ReplaceDelimited(bold2, 1,
                    Delimited(<<"*">>, <<"*">>, LineTerminators, FALSE,
                              EmOpen, EmClose))
        italic2 == ReplaceDelimited(italic1, 1,
                    Delimited(<<"_">>, <<"_">>, LineTerminators, FALSE,
                              EmOpen, EmClose))
        strike == IF o.enableStrikethrough
                  THEN ReplaceDelimited(italic2, 1,
                          Delimited(<<"~", "~">>, <<"~", "~">>, LineTerminators,
                                    FALSE, DelOpen, DelClose))
                  ELSE italic2
        code == IF o.enableCodeBlocks
                THEN ReplaceDelimited(
                        ReplaceDelimited(strike, 1,
                            Delimited(<<Backtick, Backtick, Backtick>>,
                                      <<Backtick, Backtick, Backtick>>, {Backtick},
                                      FALSE, PreCodeOpen, PreCodeClose)),
                        1,
                        Delimited(<<Backtick>>, <<Backtick>>, {Backtick}, FALSE,
                                  CodeOpen, CodeClose))
                ELSE strike
        links == ReplaceBracketed(code, 1,
                    [prefix |-> <<"[">>, before |-> AOpen, mid |-> AMid,
                     after |-> AClose, first |-> 2])
        images == ReplaceBracketed(links, 1,
                    [prefix |-> <<"!", "[">>, before |-> ImgOpen, mid |-> ImgMid,
                     after |-> ImgClose, first |-> 1])
        items == MapLines("ordered", MapLines("bullet", images))
        wrapped == ReplaceDelimited(
                       ReplaceDelimited(items, 1, WrapItems(UlOpen, UlClose)),
                       1, WrapItems(OlOpen, OlClose))
        tasks == IF o.enableTaskLists
                 THEN MapLines("checked", MapLines("unchecked", wrapped))
                 ELSE wrapped
        quotes == MapLines("blockquote", MapLines("hr", tasks))
        tables == IF o.enableTables THEN convertTables(quotes) ELSE quotes
        breaks == ReplaceString(
                      ReplaceString(tables, 1, <<NL, NL>>, ParagraphBreak),
                      1, <<NL>>, Br)
    IN  ReplaceString(POpen \o breaks \o PClose, 1, POpen \o PClose, <<>>)

(***************************************************************************)
(* SpecMarkdown: markdownToHtml on a Markdown document of a few lines with *)
(* emphasis, list items and task items.                                    *)
(* SpecTables: markdownToHtml on a document of table lines and others.     *)
(***************************************************************************)
\* a
PlainLine == <<"a">>

\* (an empty line)
BlankLine == <<>>

\* **a**
BoldLine == <<"*", "*", "a", "*", "*">>

\* **a** **b**
TwoBoldLine == <<"*", "*", "a", "*", "*", " ", "*", "*", "b", "*", "*">>

\* * a
BulletItem == <<"*", " ", "a">>

\* 1. a
OrderedItem == <<"1", ".", " ", "a">>

\* - [x] a
CheckedTask == <<"-", " ", "[", "x", "]", " ", "a">>

\* - [ ] b
UncheckedTask == <<"-", " ", "[", " ", "]", " ", "b">>

\* | a | b |
TableRow == <<"|", " ", "a", " ", "|", " ", "b", " ", "|">>

\* |---|---|
TableSeparator == <<"|", "-", "-", "-", "|", "-", "-", "-", "|">>

\* | a---b | c |
DashedRow ==
    <<"|", " ", "a", "-", "-", "-", "b", " ", "|", " ", "c", " ", "|">>

\* ---
RuleLine == <<"-", "-", "-">>

MdLines ==
    {PlainLine, BlankLine, BoldLine, TwoBoldLine, BulletItem, OrderedItem,
     CheckedTask, UncheckedTask}

TableLines ==
    {PlainLine, BlankLine, TableRow, TableSeparator, DashedRow, RuleLine}

\* the documents of 1..maxLines lines, joined with line breaks
MdDocs(lines, maxLines) ==
    UNION {{Join(ls, NL) : ls \in [1..n -> lines]} : n \in 1..maxLines}

MarkdownOptions ==
    {[MarkdownDefaults EXCEPT !.enableTaskLists = tl, !.enableTables = tb] :
        tl \in BOOLEAN, tb \in BOOLEAN}

InitMarkdown ==
    /\ pc = "markdown"
    /\ jsonData = Undefined
    /\ text \in MdDocs(MdLines, MaxLines)
    /\ opts \in MarkdownOptions
    /\ out = NoResult
    /\ batch = Idle

InitTables ==
    /\ pc = "markdown"
    /\ jsonData = Undefined
    /\ text \in MdDocs(TableLines, MaxRows)
    /\ opts \in {o \in MarkdownOptions : o.enableTaskLists}
    /\ out = NoResult
    /\ batch = Idle

\* MarkdownToHtmlConverter.convert on the Markdown file
MarkdownToHtml ==
    /\ pc = "markdown"
    /\ out' = Ok(markdownToHtml(text, opts))
    /\ pc' = "rendered"
    /\ UNCHANGED <<jsonData, text, opts, batch>>

NextMarkdown == MarkdownToHtml

SpecMarkdown == InitMarkdown /\ [][NextMarkdown]_vars

SpecTables == InitTables /\ [][NextMarkdown]_vars

(***************************************************************************)
(* Properties of the Markdown renderer.                                    *)
(***************************************************************************)
\* the texts X of the **X** spans of a document, paired from left to right
RECURSIVE BoldSpans(_, _)
BoldSpans(s, i) ==
    LET opens == {k \in i..Len(s) : MatchesAt(s, k, <<"*", "*">>)}
    IN  IF opens = {} THEN {}
        ELSE LET k == SetMin(opens)
                 closes == {j \in (k + 2)..Len(s) : MatchesAt(s, j, <<"*", "*">>)}
             IN  IF closes = {} THEN {}
                 ELSE {SubSeq(s, k + 2, SetMin(closes) - 1)}
                          \cup BoldSpans(s, SetMin(closes) + 2)

PlainText(X) == \A i \in 1..Len(X) : X[i] \notin {"*", "_", Backtick, NL}

\* C12: Markdown bold.  For every document in which each **X** span
\* encloses plain text X, the rendered HTML contains <strong>X</strong>
\* for each such span, two or more spans on one line included.
C12_MarkdownBold ==
    (pc = "rendered" /\ \A X \in BoldSpans(text, 1) : PlainText(X))
        => \A X \in BoldSpans(text, 1) :
              IncludesString(out.data, StrongOpen \o X \o StrongClose)

DocLines == Split(text, NL)

CheckedPrefix == <<"-", " ", "[", "x", "]", " ">>
UncheckedPrefix == <<"-", " ", "[", " ", "]", " ">>

\* the text T of a line "prefix T"
TaskText(line, prefix) == SubSeq(line, Len(prefix) + 1, Len(line))

\* <input type="checkbox"
CheckboxInput ==
    <<"<", "i", "n", "p", "u", "t", " ", "t", "y", "p", "e", "=", "\"",
      "c", "h", "e", "c", "k", "b", "o", "x", "\"">>

\* C13: Markdown task lists.  With enableTaskLists=true every line
\* "- [x] T" renders as a list item containing
\* <input type="checkbox" checked disabled> T and every line "- [ ] T" as one
\* containing <input type="checkbox" disabled> T; with enableTaskLists=false
\* the output contains no checkbox input.
C13_TaskLists ==
    pc = "rendered" =>
        IF opts.enableTaskLists
        THEN \A i \in 1..Len(DocLines) :
                /\ StartsWith(DocLines[i], CheckedPrefix)
                     => IncludesString(out.data,
                            CheckboxCheckedOpen
                                \o TaskText(DocLines[i], CheckedPrefix) \o LiClose)
                /\ StartsWith(DocLines[i], UncheckedPrefix)
                     => IncludesString(out.data,
                            CheckboxOpen
                                \o TaskText(DocLines[i], UncheckedPrefix) \o LiClose)
        ELSE ~IncludesString(out.data, CheckboxInput)

\* a checked and an unchecked task after a bullet item, rendered with task
\* lists enabled
C13_Witness ==
    /\ pc = "rendered"
    /\ opts.enableTaskLists
    /\ DocLines = <<BulletItem, CheckedTask, UncheckedTask>>
    /\ IncludesString(out.data, CheckboxInput)

\* a task line rendered with task lists disabled
C13_WitnessDisabled ==
    /\ pc = "rendered"
    /\ ~opts.enableTaskLists
    /\ DocLines = <<CheckedTask>>

IsItemLine(line) == line \in {BulletItem, OrderedItem}
IsTaskLine(line) ==
    StartsWith(line, CheckedPrefix) \/ StartsWith(line, UncheckedPrefix)

\* the document is a run of list items, then lines of text that hold no list
\* item and no task item, then a second run of list items
TwoItemRuns(lines) ==
    \E a \in 1..Len(lines) : \E b \in (a + 2)..Len(lines) :
        /\ \A i \in 1..a : IsItemLine(lines[i])
        /\ \A i \in (a + 1)..(b - 1) :
              /\ lines[i] # BlankLine
              /\ ~IsItemLine(lines[i])
              /\ ~IsTaskLine(lines[i])
        /\ \A i \in b..Len(lines) : IsItemLine(lines[i])

\* the positions where the string p stands in s
Occurrences(s, p) == {i \in 1..Len(s) : MatchesAt(s, i, p)}

\* C19: Markdown list wrapping.  In a document with two runs of list items
\* separated by non-list text, the wrapping pass encloses only the first run
\* in a list container: the container closes directly after the last item
\* of the first run, and the separating text and the second run stay
\* outside it.
C19_ListWrapping ==
    (pc = "rendered" /\ TwoItemRuns(DocLines))
        => /\ Occurrences(out.data, UlClose) # {}
           /\ \A c \in Occurrences(out.data, UlClose) \cup Occurrences(out.data, OlClose) :
                 c < SetMax(Occurrences(out.data, LiOpen))

\* a separator line: pipe-separated cells made of dashes and colons, with ---
IsSeparatorLine(line) ==
    /\ Includes(line, "|")
    /\ IncludesString(line, <<"-", "-", "-">>)
    /\ \A c \in 1..Len(TableCells(line)) :
          \A i \in 1..Len(TableCells(line)[c]) :
              TableCells(line)[c][i] \in {"-", ":"}

\* a header line, a separator line and m >= 1 body lines, every header and
\* body line with n >= 1 non-empty pipe-separated cells
IsTableBlock(lines, n, m) ==
    /\ Len(lines) = m + 2
    /\ m >= 1
    /\ n >= 1
    /\ IsSeparatorLine(lines[2])
    /\ \A i \in {1} \cup 3..Len(lines) :
          /\ Includes(lines[i], "|")
          /\ Len(TableCells(lines[i])) = n
          /\ ~IsSeparatorLine(lines[i])

Count(s, p) == Cardinality(Occurrences(s, p))

\* <table>
TableTag == <<"<", "t", "a", "b", "l", "e", ">">>

\* C14: Markdown tables.  With enableTables=true, a block made of a header
\* line with n non-empty cells, a separator line containing --- and m body
\* lines of n non-empty cells each renders as exactly one <table> whose
\* header row has n <th> cells and whose body has m rows of n <td> cells
\* each; the separator line produces no row.
C14_Tables ==
    (pc = "rendered" /\ opts.enableTables)
        => \A n \in 1..Len(text) : \A m \in 1..Len(DocLines) :
              IsTableBlock(DocLines, n, m)
                  => /\ Count(out.data, TableTag) = 1
                     /\ Count(out.data, ThOpen) = n
                     /\ Count(out.data, TrOpen) = 1 + m
                     /\ Count(out.data, TdOpen) = n * m

(***************************************************************************)
(* Input-type validation: OmniConvertCore.validateFileType and             *)
(* BaseConverter.validateFile, called first by every converter's convert.  *)
(* SpecValidate: convert of a data converter on a file, up to the point    *)
(* where the file's content has been read.                                 *)
(***************************************************************************)
\* text/csv
TextCsv == <<"t", "e", "x", "t", "/", "c", "s", "v">>

\* application/csv
ApplicationCsv ==
    <<"a", "p", "p", "l", "i", "c", "a", "t", "i", "o", "n", "/", "c", "s",
      "v">>

\* application/json
ApplicationJson ==
    <<"a", "p", "p", "l", "i", "c", "a", "t", "i", "o", "n", "/", "j", "s",
      "o", "n">>

\* text/xml
TextXml == <<"t", "e", "x", "t", "/", "x", "m", "l">>

\* application/xml
ApplicationXml ==
    <<"a", "p", "p", "l", "i", "c", "a", "t", "i", "o", "n", "/", "x", "m",
      "l">>

\* text/markdown
TextMarkdown ==
    <<"t", "e", "x", "t", "/", "m", "a", "r", "k", "d", "o", "w", "n">>

\* text/x-markdown
TextXMarkdown ==
    <<"t", "e", "x", "t", "/", "x", "-", "m", "a", "r", "k", "d", "o", "w",
      "n">>

\* text/plain
TextPlain == <<"t", "e", "x", "t", "/", "p", "l", "a", "i", "n">>

\* .csv
DotCsv == <<".", "c", "s", "v">>

\* .json
DotJson == <<".", "j", "s", "o", "n">>

\* .xml
DotXml == <<".", "x", "m", "l">>

\* .md
DotMd == <<".", "m", "d">>

\* .markdown
DotMarkdown == <<".", "m", "a", "r", "k", "d", "o", "w", "n">>

\* a.csv
NameCsv == <<"a", ".", "c", "s", "v">>

\* A.CSV
NameUpperCsv == <<"A", ".", "C", "S", "V">>

\* a.json
NameJson == <<"a", ".", "j", "s", "o", "n">>

\* a.xml
NameXml == <<"a", ".", "x", "m", "l">>

\* a.md
NameMd == <<"a", ".", "m", "d">>

\* a.markdown
NameMarkdown == <<"a", ".", "m", "a", "r", "k", "d", "o", "w", "n">>

\* a.txt
NameTxt == <<"a", ".", "t", "x", "t">>

\* csv
NameNoDot == <<"c", "s", "v">>
DataConverters ==
    {"csv-to-json", "json-to-csv", "xml-to-json", "json-to-xml", "markdown-to-html"}

\* this.supportedInputs of each data converter
supportedInputs(converter) ==
    CASE converter = "csv-to-json" -> <<TextCsv, ApplicationCsv, DotCsv>>
      [] converter = "json-to-csv" -> <<ApplicationJson, DotJson>>
      [] converter = "xml-to-json" -> <<TextXml, ApplicationXml, DotXml>>
      [] converter = "json-to-xml" -> <<ApplicationJson, DotJson>>
      [] converter = "markdown-to-html" ->
             <<TextMarkdown, TextXMarkdown, DotMd, DotMarkdown>>

\* String.prototype.endsWith
EndsWith(s, suffix) ==
    /\ Len(suffix) <= Len(s)
    /\ SubSeq(s, Len(s) - Len(suffix) + 1, Len(s)) = suffix

\* a File or Blob: name is empty when the object has no name or an empty one
File(name, type) == [name |-> name, type |-> type]

NoFile == [name |-> <<>>, type |-> <<>>, missing |-> TRUE]

validateFileType(file, allowedTypes) ==
    IF file = NoFile \/ file.name = <<>> THEN FALSE
    ELSE \E i \in 1..Len(allowedTypes) :
            LET type == allowedTypes[i]
            IN  IF type = <<>> THEN FALSE
                ELSE IF Includes(type, "/") THEN file.type = type
                ELSE EndsWith(ToLowerCase(file.name), ToLowerCase(type))

\* BaseConverter.validateFile: the error it throws, "" when it returns
validateFile(file, allowedTypes) ==
    IF ~validateFileType(file, allowedTypes) THEN "InvalidFileType" ELSE ""

FileNames ==
    {<<>>, NameCsv, NameUpperCsv, NameJson, NameXml, NameMd, NameMarkdown,
     NameTxt, NameNoDot}

FileTypes ==
    {<<>>, TextCsv, ApplicationCsv, ApplicationJson, TextXml, ApplicationXml,
     TextMarkdown, TextXMarkdown, TextPlain}

Files == {File(n, t) : n \in FileNames, t \in FileTypes} \cup {NoFile}

InitValidate ==
    /\ pc = "file"
    /\ jsonData = Undefined
    /\ text \in Files
    /\ opts \in [converter : DataConverters]
    /\ out = NoResult
    /\ batch = Idle

\* convert(file) up to its first await: validateFile, then file.text() is
\* called
ConvertValidates ==
    /\ pc = "file"
    /\ LET error == validateFile(text, supportedInputs(opts.converter))
       IN  IF error # ""
           THEN /\ out' = Throw(error)
                /\ pc' = "failed"
           ELSE /\ out' = out
                /\ pc' = "reading"
    /\ UNCHANGED <<jsonData, text, opts, batch>>

\* await file.text() resolves: the content has been read and parsing starts
TextResolves ==
    /\ pc = "reading"
    /\ pc' = "read"
    /\ UNCHANGED <<jsonData, text, opts, out, batch>>

NextValidate == ConvertValidates \/ TextResolves

SpecValidate == InitValidate /\ [][NextValidate]_vars

\* the file's media type is one of the accepted media types
MatchesMediaType(file, allowedTypes) ==
    \E i \in 1..Len(allowedTypes) :
        Includes(allowedTypes[i], "/") /\ file.type = allowedTypes[i]

\* the file's lower-cased name ends with one of the accepted extensions
MatchesExtension(file, allowedTypes) ==
    \E i \in 1..Len(allowedTypes) :
        /\ ~Includes(allowedTypes[i], "/")
        /\ EndsWith(ToLowerCase(file.name), allowedTypes[i])

\* C15: input-type validation precedes parsing.  For each data converter,
\* convert on a file that matches neither by media type nor by extension
\* fails with the invalid-file-type error before the content is read; a
\* file that matches by media type or by extension is never rejected by
\* this check.
C15_ValidationPrecedesParsing ==
    (pc # "file" /\ text # NoFile)
        => LET allowed == supportedInputs(opts.converter)
           IN  IF MatchesMediaType(text, allowed) \/ MatchesExtension(text, allowed)
               THEN pc \in {"reading", "read"}
               ELSE pc = "failed" /\ out.error = "InvalidFileType"

(***************************************************************************)
(* SpecFacade: one call of a conversion method of a freshly constructed    *)
(* OmniConvert, up to the converter call it dispatches to.                 *)
(***************************************************************************)
\* the methods that go through convertFiles, with the type they pass
ConvertFilesMethods ==
    [jpgToPng |-> "jpg-to-png", pngToJpg |-> "png-to-jpg",
     webpToJpg |-> "webp-to-jpg", pngToWebp |-> "png-to-webp",
     jpgToWebp |-> "jpg-to-webp", heicToJpg |-> "heic-to-jpg",
     svgToPng |-> "svg-to-png", gifToMp4 |-> "gif-to-mp4",
     mp4ToGif |-> "mp4-to-gif"]

\* the methods that create their converter themselves and call its convert
DirectMethods ==
    [jpgToPdf |-> "jpg-to-pdf", csvToJson |-> "csv-to-json",
     jsonToCsv |-> "json-to-csv", xmlToJson |-> "xml-to-json",
     markdownToHtml |-> "markdown-to-html", jsonToXml |-> "json-to-xml"]

Methods == DOMAIN ConvertFilesMethods \cup DOMAIN DirectMethods

\* createConverter(type, options): the error it throws, "" when it returns
createConverter(converters, type) ==
    IF type \notin converters THEN "ConverterNotFound" ELSE ""

\* the files argument of the call: one file, or a list of n files
FilesArguments(maxFiles) ==
    {[isArray |-> FALSE, length |-> 1]}
        \cup {[isArray |-> TRUE, length |-> n] : n \in 0..maxFiles}

InitFacade ==
    /\ pc = "call"
    /\ jsonData = Undefined
    /\ text = <<>>
    /\ opts \in [method : Methods, files : FilesArguments(MaxFiles)]
    /\ out = NoResult
    /\ batch = [state |-> "idle", converters |-> registerAllConverters]

\* jpgToPdf, csvToJson, ...: createConverter, then converter.convert(file)
CallDirect ==
    /\ pc = "call"
    /\ opts.method \in DOMAIN DirectMethods
    /\ LET error == createConverter(batch.converters, DirectMethods[opts.method])
       IN  IF error # ""
           THEN out' = Throw(error) /\ pc' = "failed"
           ELSE out' = out /\ pc' = "convert"
    /\ UNCHANGED <<jsonData, text, opts, batch>>

\* jpgToPng, gifToMp4, ...: convertFiles(type, files, options), up to the
\* call of converter.convert or of this.convertMultiple
CallConvertFiles ==
    /\ pc = "call"
    /\ opts.method \in DOMAIN ConvertFilesMethods
    /\ LET fileListLength == opts.files.length
           error == createConverter(batch.converters,
                                    ConvertFilesMethods[opts.method])
       IN  IF error # ""
           THEN out' = Throw(error) /\ pc' = "failed"
           ELSE /\ out' = out
                /\ pc' = IF fileListLength = 1 THEN "convert" ELSE "convertMultiple"
    /\ UNCHANGED <<jsonData, text, opts, batch>>

NextFacade == CallDirect \/ CallConvertFiles

SpecFacade == InitFacade /\ [][NextFacade]_vars

\* C16: every conversion method the README lists on the converter object
\* dispatches, on a freshly constructed OmniConvert, to a converter name
\* that registerAllConverters has registered, so none of them fails with
\* "Converter ... not found".
C16_MethodsDispatchToRegistered ==
    pc # "call" => out.error # "ConverterNotFound"

(***************************************************************************)
(* SpecCsvFlatten: json-to-csv, called with the flattenObjects option of   *)
(* the README, on a list of maps whose values are strings or nested maps.  *)
(***************************************************************************)
\* a string, {"x": "1"} and {"x": "1", "y": "2"}
NestedValues ==
    {Str(<<"1">>),
     Map(<<Entry(<<"x">>, Str(<<"1">>))>>),
     Map(<<Entry(<<"x">>, Str(<<"1">>)), Entry(<<"y">>, Str(<<"2">>))>>)}

\* the lists of 1..maxRecords maps that share their keys "a" or "a", "b"
NestedTables(maxRecords) ==
    UNION {{List([i \in 1..nr |->
                    Map([k \in 1..nc |-> Entry(ColNames[k], cells[i][k])])]) :
               cells \in [1..nr -> [1..nc -> NestedValues]]} :
           nr \in 1..maxRecords, nc \in 1..2}

\* the options of the call: JsonToCsvConverter reads delimiter and
\* includeHeader, nothing reads flattenObjects
FlattenOptions ==
    [delimiter : Delimiters, includeHeader : BOOLEAN, hasHeader : {TRUE},
     flattenObjects : BOOLEAN]

InitCsvFlatten ==
    /\ pc = "json"
    /\ jsonData \in NestedTables(MaxRecords)
    /\ text = <<>>
    /\ opts \in FlattenOptions
    /\ out = NoResult
    /\ batch = Idle

SpecCsvFlatten == InitCsvFlatten /\ [][JsonToCsv]_vars

\* the columns a record has once its nested maps are flattened
RECURSIVE LeafCount(_)
LeafCount(entries) ==
    IF entries = <<>> THEN 0
    ELSE (IF Head(entries).val.t = "map" THEN Len(Head(entries).val.v) ELSE 1)
             + LeafCount(Tail(entries))

HasNestedMap(table) ==
    \E i \in 1..Len(table.v) : \E k \in 1..Len(table.v[i].v) :
        table.v[i].v[k].val.t = "map"

\* C17: JSON-to-CSV flattening.  With flattenObjects: true, on a list of maps
\* whose values include nested maps, each field of a nested map becomes its
\* own CSV column: no nested map is written as one cell.
C17_FlattenObjects ==
    (pc = "encoded" /\ opts.flattenObjects /\ HasNestedMap(jsonData))
        => /\ ~IncludesString(out.data, JsString(Map(<<>>)))
           /\ \A i \in 1..Len(jsonData.v) :
                 LET lines == Split(out.data, NL)
                     line == lines[i + (IF opts.includeHeader THEN 1 ELSE 0)]
                 IN  Len(Split(line, opts.delimiter)) = LeafCount(jsonData.v[i].v)

(***************************************************************************)
(* Properties of objectToXml.                                              *)
(***************************************************************************)
\* the map the encoder hands to objectToXml at the root, with the element
\* name it is given: the value of a single root key, or the whole root map
\* of two or more keys
RootMapOf(data, o) ==
    IF Len(data.v) = 1
    THEN [map |-> data.v[1].val, name |-> data.v[1].k]
    ELSE [map |-> data,
          name |-> IF o.rootElementName = DefaultRoot
                   THEN <<"d", "a", "t", "a">> ELSE o.rootElementName]

IsScalar(x) == x.t \in {"null", "bool", "num", "str"}

\* a root map encoded by objectToXml whose values are all scalars
EncodesScalarMap(data, o) ==
    /\ data.t = "map"
    /\ Len(data.v) >= 1
    /\ RootMapOf(data, o).map.t = "map"
    /\ \A i \in 1..Len(RootMapOf(data, o).map.v) :
          IsScalar(RootMapOf(data, o).map.v[i].val)

IsAttributeKey(key, o) == StartsWith(key, o.attributePrefix)

\* the keys of the entries, in map-iteration order
EntryKeys(entries) == [i \in 1..Len(entries) |-> entries[i].k]

\* the tags of the encoded text: the element tags, without the declaration
\* and the character data
IsTag(tok) == tok.kind \in {"open", "empty"}

ElementTags(xml) == SelectSeq(xml, IsTag)

\* C20: nested map encoding keeps every entry.  For every map encoded by
\* objectToXml, each key starting with the attribute prefix appears as an
\* attribute of the element and each key that is neither an attribute key
\* nor the text key appears as a child element, in map-iteration order,
\* also when the map has a text entry, wherever the text key stands.
C20_ObjectToXmlKeepsEntries ==
    (pc = "encoded" /\ EncodesScalarMap(jsonData, opts))
        => LET entries == RootMapOf(jsonData, opts).map.v
               IsAttr(k) == IsAttributeKey(k, opts)
               IsChild(k) == ~IsAttributeKey(k, opts) /\ k # opts.textNodeName
               attrKeys == SelectSeq(EntryKeys(entries), IsAttr)
               childKeys == SelectSeq(EntryKeys(entries), IsChild)
               tags == ElementTags(text)
           IN  /\ Len(tags) = 1 + Len(childKeys)
               /\ Len(tags[1].attrs) = Len(attrKeys)
               /\ \A i \in 1..Len(attrKeys) :
                     tags[1].attrs[i].name =
                         sanitizeAttributeName(
                             SubSeq(attrKeys[i], Len(opts.attributePrefix) + 1,
                                    Len(attrKeys[i])))
               /\ \A i \in 1..Len(childKeys) :
                     tags[1 + i].name = sanitizeElementName(childKeys[i])

(***************************************************************************)
(* Name sanitization: what the first pass leaves and what the second does  *)
(* to the first character.                                                 *)
(***************************************************************************)
\* name.replace(/[^a-zA-Z0-9\-_\.]/g, '_'): the first pass alone
ReplacedName(name) ==
    [i \in 1..Len(name) |->
        IF name[i] \in Letters \cup Digits \cup {"-", "_", "."}
        THEN name[i] ELSE "_"]

\* C21: name sanitization inserts, it does not drop.  For every name whose
\* first character, after each character outside [A-Za-z0-9._-] became an
\* underscore, is not a letter or an underscore, the sanitized name is an
\* underscore followed by the whole replaced name: its length is the length
\* of the name plus one and the leading digit, dot or hyphen is kept.
C21_SanitizeInserts ==
    (/\ pc = "sanitized"
     /\ text # <<>>
     /\ ReplacedName(text)[1] \notin Letters \cup {"_"})
        => /\ out.data = <<"_">> \o ReplacedName(text)
           /\ Len(out.data) = Len(text) + 1

(***************************************************************************)
(* Text runs and empty elements under xmlToJson.                           *)
(***************************************************************************)
\* the child text nodes of an element that are more than white space
TextRuns(node) ==
    {i \in 1..Len(node.children) :
        node.children[i].kind = "text" /\ Trim(node.children[i].value) # <<>>}

ElementChildren(node) ==
    {i \in 1..Len(node.children) : node.children[i].kind = "element"}

\* the attributes that reach the result map
KeptAttributes(node, o) == IF o.ignoreAttributes THEN <<>> ELSE node.attrs

\* the element has no (or ignored) attributes and its first content that is
\* not white space is a text run
TextFirst(node, o) ==
    LET content == TextRuns(node) \cup ElementChildren(node)
    IN  /\ KeptAttributes(node, o) = <<>>
        /\ content # {}
        /\ SetMin(content) \in TextRuns(node)

CoercedRun(node, i, o) == parseValue(Trim(node.children[i].value), o)

\* what the three cases say of the value an element decodes to
DecodesTextAndEmpty(node, value, o) ==
    /\ TextFirst(node, o)
           => value = CoercedRun(node, SetMin(TextRuns(node)), o)
    /\ (~TextFirst(node, o) /\ TextRuns(node) # {})
           => /\ value.t = "map"
              /\ Lookup(value, o.textNodeName)
                     = CoercedRun(node, SetMax(TextRuns(node)), o)
    /\ (node.attrs = <<>> /\ TextRuns(node) = {} /\ ElementChildren(node) = {})
           => value = Null

\* C22: XML decode of text and empty elements.  An element with no (or
\* ignored) attributes whose first content that is not white space is a text
\* run decodes to the coerced scalar of that text; an element whose result
\* map already has a key when a text run that is not white space is met
\* holds the coerced text under textNodeName (the last such run, when there
\* are several); an element with no attributes, no text that is not white
\* space and no child elements decodes to null.  Stated of the root element
\* and of each of its child elements.
C22_DecodeTextAndEmpty ==
    (pc = "decoded" /\ out.ok)
        => /\ DecodesTextAndEmpty(RootElement, out.data, opts)
           /\ \A i \in ElementChildren(RootElement) :
                 DecodesTextAndEmpty(RootElement.children[i],
                                     xmlToJson(RootElement.children[i], opts), opts)

\* <r x="1">a<a/>a</r>: the text is met with a key in the map, twice
C22_Witness ==
    /\ pc = "decoded"
    /\ out.ok
    /\ ~opts.ignoreAttributes
    /\ RootElement.attrs # <<>>
    /\ \E i, k \in TextRuns(RootElement) :
          \E j \in ElementChildren(RootElement) : i < j /\ j < k
    /\ out.data.t = "map"
    /\ Lookup(out.data, opts.textNodeName) = Str(<<"a">>)

\* <r><a>0</a><b/></r>: a child that collapses to its text, a child that
\* decodes to null
C22_WitnessCollapsed ==
    /\ pc = "decoded"
    /\ out.ok
    /\ \E i, j \in ElementChildren(RootElement) :
          /\ TextFirst(RootElement.children[i], opts)
          /\ xmlToJson(RootElement.children[i], opts).t = "num"
          /\ RootElement.children[j].children = <<>>
          /\ RootElement.children[j].attrs = <<>>
          /\ xmlToJson(RootElement.children[j], opts) = Null

(***************************************************************************)
(* SpecEscape: escapeXml applied to a text.                                *)
(***************************************************************************)
\* the five characters escapeXml replaces, and the characters an entity is
\* spelled with, so that a text can already hold an entity
EscapeAlphabet == {"&", "<", ">", QUOTE, "'", "l", "t", ";"}

EscapeTexts(maxLen) == UNION {[1..n -> EscapeAlphabet] : n \in 0..maxLen}

InitEscape ==
    /\ pc = "text"
    /\ jsonData = Undefined
    /\ text \in EscapeTexts(MaxEscape)
    /\ opts = XmlDefaults
    /\ out = NoResult
    /\ batch = Idle

\* this.escapeXml(text)
EscapeXml ==
    /\ pc = "text"
    /\ out' = Ok(escapeXml(text))
    /\ pc' = "escaped"
    /\ UNCHANGED <<jsonData, text, opts, batch>>

NextEscape == EscapeXml

SpecEscape == InitEscape /\ [][NextEscape]_vars

\* the entity of a character, or the character itself
EntityOf(c) ==
    IF \E i \in 1..Len(Entities) : Entities[i][2] = c
    THEN Entities[CHOOSE i \in 1..Len(Entities) : Entities[i][2] = c][1]
    ELSE <<c>>

\* C23: XML escaping does not double-escape.  For every string s,
\* escapeXml(s) is s with each character replaced independently by its
\* entity (any other character by itself); the output holds no raw <, >,
\* double or single quote, every & in it starts one of the five entities,
\* and replacing the entities back yields s.
C23_EscapeXml ==
    pc = "escaped"
        => /\ out.data = Concat([i \in 1..Len(text) |-> EntityOf(text[i])])
           /\ \A i \in 1..Len(out.data) :
                 /\ out.data[i] \notin {"<", ">", QUOTE, "'"}
                 /\ out.data[i] = "&"
                        => EntityAt(SubSeq(out.data, i, Len(out.data))) # {}
           /\ Unescape(out.data) = text

\* &lt; escaped: a text that already spells an entity
C23_Witness ==
    /\ pc = "escaped"
    /\ text = <<"&", "l", "t", ";">>
    /\ out.data = <<"&", "a", "m", "p", ";", "l", "t", ";">>

(***************************************************************************)
(* SpecConvertTables: convertTables applied to a sequence of lines.        *)
(***************************************************************************)
\* (a with a space on either side)
PaddedLine == <<" ", "a", " ">>

ScannerLines == TableLines \cup {PaddedLine}

InitConvertTables ==
    /\ pc = "lines"
    /\ jsonData = Undefined
    /\ text \in MdDocs(ScannerLines, MaxRows)
    /\ opts = MarkdownDefaults
    /\ out = NoResult
    /\ batch = Idle

\* this.convertTables(html)
ConvertTables ==
    /\ pc = "lines"
    /\ out' = Ok(convertTables(text))
    /\ pc' = "scanned"
    /\ UNCHANGED <<jsonData, text, opts, batch>>

NextConvertTables == ConvertTables

SpecConvertTables == InitConvertTables /\ [][NextConvertTables]_vars

\* the input lines without a pipe, trimmed, in their order
PipeFreeLines(s) ==
    LET kept == SelectSeq(Split(s, NL), LAMBDA line : ~Includes(line, "|"))
    IN  [i \in 1..Len(kept) |-> Trim(kept[i])]

\* the output lines that are not a table
PlainOutputLines(s) ==
    SelectSeq(Split(s, NL), LAMBDA line : ~StartsWith(line, TableTag))

\* C24: table scanner invariant.  For every sequence of input lines,
\* convertTables emits as many table-closing tags as table-opening tags and
\* never opens a table while one is open (a table still open at the end of
\* the input is closed), and every input line without a pipe character
\* appears, trimmed, in the output, in its original relative order.
C24_TableScanner ==
    pc = "scanned"
        => LET opens == Occurrences(out.data, TableTag)
               closes == Occurrences(out.data, TableClose)
           IN  /\ Cardinality(opens) = Cardinality(closes)
               /\ \A i \in opens : \E c \in closes : i < c
               /\ \A i, j \in opens :
                     i < j => \E c \in closes : i < c /\ c < j
               /\ PlainOutputLines(out.data) = PipeFreeLines(text)

\* a table closed by a line without a pipe, then a table open at the end
C24_Witness ==
    /\ pc = "scanned"
    /\ Split(text, NL) = <<TableRow, PaddedLine, TableRow, DashedRow>>
    /\ Count(out.data, TableTag) = 2
    /\ Count(out.data, TableClose) = 2
    /\ PlainOutputLines(out.data) = <<PlainLine>>

(***************************************************************************)
(* The top-level elements of the text jsonToXml produces.                  *)
(***************************************************************************)
\* the number of elements of the token sequence that are inside no other
\* element, from token i on at the given nesting depth
RECURSIVE TopLevelElements(_, _, _)
TopLevelElements(tokens, i, depth) ==
    IF i > Len(tokens) THEN 0
    ELSE CASE tokens[i].kind = "open" ->
                  (IF depth = 0 THEN 1 ELSE 0)
                      + TopLevelElements(tokens, i + 1, depth + 1)
           [] tokens[i].kind = "close" ->
                  TopLevelElements(tokens, i + 1, depth - 1)
           [] tokens[i].kind = "empty" ->
                  (IF depth = 0 THEN 1 ELSE 0)
                      + TopLevelElements(tokens, i + 1, depth)
           [] OTHER -> TopLevelElements(tokens, i + 1, depth)

\* C25: single root element.  For every JSON value (a map, a list of any
\* length, the empty one included, a scalar or null at the root), the text
\* jsonToXml produces holds, after the optional XML declaration, exactly one
\* top-level element.
C25_SingleRoot ==
    (pc \in {"encoded", "failed"} /\ jsonData # Malformed)
        => /\ out.ok
           /\ TopLevelElements(out.data, 1, 0) = 1

\* C26: XML decode loses no child element.  For every element, each of its
\* child elements contributes a value to the decoded result under the
\* child's name: the result is a map with a key for every child name, also
\* when the content is a text run followed by child elements.
C26_DecodeKeepsChildren ==
    (pc = "decoded" /\ out.ok)
        => \A name \in ChildNames(RootElement) :
              /\ out.data.t = "map"
              /\ HasKey(out.data, name)

(***************************************************************************)
(* SpecImages: markdown-to-html on documents with links and images.        *)
(***************************************************************************)
\* ![a](b)
ImageLine == <<"!", "[", "a", "]", "(", "b", ")">>

\* [a](b)
LinkLine == <<"[", "a", "]", "(", "b", ")">>

\* a ![a](b)
TextImageLine == <<"a", " ">> \o ImageLine

ImageLines == {PlainLine, BlankLine, ImageLine, LinkLine, TextImageLine}

InitImages ==
    /\ pc = "markdown"
    /\ jsonData = Undefined
    /\ text \in MdDocs(ImageLines, MaxLines)
    /\ opts \in MarkdownOptions
    /\ out = NoResult
    /\ batch = Idle

SpecImages == InitImages /\ [][NextMarkdown]_vars

\* <img alt="ALT" src="SRC" />
ImgTag(alt, src) == ImgOpen \o alt \o ImgMid \o src \o ImgClose

\* C27: Markdown images.  Every image markup ![ALT](SRC) renders as
\* <img alt="ALT" src="SRC" /> and not as a hyperlink: the output holds one
\* img tag per image markup of the document and no anchor follows an
\* exclamation mark.
C27_MarkdownImages ==
    pc = "rendered"
        => /\ Count(out.data, ImgTag(<<"a">>, <<"b">>)) = Count(text, ImageLine)
           /\ Count(out.data, <<"!">> \o AOpen) = 0

(***************************************************************************)
(* SpecConvertFiles: one call of OmniConvert.convertFiles, through the     *)
(* single conversion or the batch it hands over to, until the promise it   *)
(* returned settles.  out is what the promise settles with.                *)
(***************************************************************************)
\* the result converter.convert resolves with for file i
ConversionResult(i, blob) ==
    [kind |-> "result", file |-> i, blob |-> blob, records |-> <<>>]

\* the array convertMultiple resolves with
RecordList(records) ==
    [kind |-> "records", file |-> 0, blob |-> FALSE, records |-> records]

\* files is a bare file (opts.isArray = FALSE) or a list of files
InitConvertFiles ==
    /\ pc = "convertFiles"
    /\ jsonData = Undefined
    /\ text = <<>>
    /\ out = NoResult
    /\ \E files \in BatchFiles(MaxFiles), type \in ConverterTypes, auto \in BOOLEAN,
          callAuto \in {"unset", "true", "false"}, isArray \in BOOLEAN :
          /\ ~isArray => Len(files) = 1
          /\ opts = [isArray |-> isArray]
          /\ batch = [state |-> "idle",
                      autoDownload |-> auto,
                      converters |-> registerAllConverters,
                      type |-> type,
                      files |-> files,
                      callAutoDownload |-> callAuto,
                      i |-> 0,
                      converting |-> 0,
                      started |-> <<>>,
                      pending |-> {},
                      results |-> <<>>,
                      progress |-> <<>>,
                      errors |-> <<>>,
                      downloads |-> <<>>,
                      summary |-> <<>>]

\* every call handed to convertMultiple, the single file included
ConvertFiles_AlwaysBatch ==
    /\ pc = "convertFiles"
    /\ IF createConverter(batch.converters, batch.type) # ""
       THEN /\ out' = Throw(createConverter(batch.converters, batch.type))
            /\ pc' = "rejected"
            /\ batch' = batch
       ELSE /\ out' = out
            /\ pc' = "batch"
            /\ batch' = [batch EXCEPT !.state = "called"]
    /\ UNCHANGED <<jsonData, text, opts>>

\* fileList, createConverter, then converter.convert(fileList[0]) or
\* this.convertMultiple(converterType, fileList, options)
ConvertFiles ==
    /\ pc = "convertFiles"
    /\ IF createConverter(batch.converters, batch.type) # ""
       THEN /\ out' = Throw(createConverter(batch.converters, batch.type))
            /\ pc' = "rejected"
            /\ batch' = batch
       ELSE IF Len(batch.files) = 1
       THEN /\ out' = out
            /\ pc' = "single"
            /\ batch' = batch
       ELSE /\ out' = out
            /\ pc' = "batch"
            /\ batch' = [batch EXCEPT !.state = "called"]
    /\ UNCHANGED <<jsonData, text, opts>>

\* the promise of converter.convert(fileList[0]) resolves, and with it the
\* promise of convertFiles
SingleResolves ==
    /\ pc = "single"
    /\ batch.files[1].convert \in {"blob", "noBlob"}
    /\ out' = Ok(ConversionResult(1, batch.files[1].convert = "blob"))
    /\ pc' = "resolved"
    /\ UNCHANGED <<jsonData, text, opts, batch>>

\* the promise of converter.convert(fileList[0]) rejects, and with it the
\* promise of convertFiles
SingleRejects ==
    /\ pc = "single"
    /\ batch.files[1].convert = "throws"
    /\ out' = Throw("conversion failed")
    /\ pc' = "rejected"
    /\ UNCHANGED <<jsonData, text, opts, batch>>

\* the promise of convertMultiple settles, and with it the promise of
\* convertFiles
BatchSettles ==
    /\ pc = "batch"
    /\ batch.state \in {"returned", "rejected"}
    /\ IF batch.state = "returned"
       THEN out' = Ok(RecordList(batch.results)) /\ pc' = "resolved"
       ELSE out' = Throw("ConverterNotFound") /\ pc' = "rejected"
    /\ UNCHANGED <<jsonData, text, opts, batch>>

NextConvertFiles ==
    \/ ConvertFiles
    \/ SingleResolves
    \/ SingleRejects
    \/ CreateConverter
    \/ StartConversion
    \/ ConvertResolves
    \/ ConvertRejects
    \/ ReturnResults
    \/ BatchSettles

SpecConvertFiles == InitConvertFiles /\ [][NextConvertFiles]_vars

\* C28: convertFiles single versus batch.  Called with one file (bare or as
\* a list of one) it returns that file's conversion result directly and a
\* conversion failure reaches the caller as a rejection; called with two or
\* more files it returns the list of per-file records and never rejects
\* because of a per-file conversion failure; called with an empty list it
\* returns an empty list.
C28_ConvertFilesSingleVersusBatch ==
    (pc \in {"resolved", "rejected"} /\ batch.type \in batch.converters)
        => /\ Len(batch.files) = 1
                 => IF batch.files[1].convert = "throws"
                    THEN pc = "rejected" /\ out.error = "conversion failed"
                    ELSE /\ pc = "resolved"
                         /\ out.data =
                                ConversionResult(1, batch.files[1].convert = "blob")
           /\ Len(batch.files) >= 2
                 => /\ pc = "resolved"
                    /\ out.data.kind = "records"
                    /\ \A i \in 1..Len(batch.files) :
                          \E r \in 1..Len(out.data.records) :
                              /\ out.data.records[r].file = i
                              /\ batch.files[i].convert = "throws"
                                    => ~out.data.records[r].success
           /\ Len(batch.files) = 0
                 => pc = "resolved" /\ out.data = RecordList(<<>>)

\* two files, both conversions failed, and the call resolved with two
\* failure records
C28_Witness ==
    /\ pc = "resolved"
    /\ Len(batch.files) = 2
    /\ \A i \in 1..2 : batch.files[i].convert = "throws"
    /\ out.data = RecordList(<<FailureRecord(1, "conversion failed"),
                               FailureRecord(2, "conversion failed")>>)

\* a bare file whose conversion failed: the call rejected
C28_WitnessSingle ==
    /\ pc = "rejected"
    /\ ~opts.isArray
    /\ batch.type \in batch.converters
    /\ out.error = "conversion failed"

(***************************************************************************)
(* Per-call options of convertMultiple.                                    *)
(***************************************************************************)
\* autoDownload of { ...this.options, ...options }: the value of the call
\* when the call gives one, the value of the instance otherwise
MergedAutoDownload ==
    IF batch.callAutoDownload = "unset" THEN batch.autoDownload
    ELSE batch.callAutoDownload = "true"

\* the files whose conversion resolved with a blob, in input order
FilesWithBlob ==
    SelectSeq([i \in 1..Len(batch.files) |-> i],
              LAMBDA i : batch.files[i].convert = "blob")

\* C29: per-call options take precedence over instance options.  The
\* downloads of one convertMultiple call follow the autoDownload value
\* passed to the call rather than the value the instance was constructed
\* with: every result with a blob is downloaded when the merged value is
\* true and nothing is downloaded when it is false; the instance's own
\* options and converter registry are unchanged after the call.
C29_PerCallOptions ==
    (pc = "batch" /\ batch.state = "returned"
        /\ \A i \in 1..Len(batch.files) : batch.files[i].download = "ok")
        => /\ batch.downloads = IF MergedAutoDownload THEN FilesWithBlob ELSE <<>>
           /\ batch.converters = registerAllConverters

(***************************************************************************)
(* The reports made to the progress callback.  A report is the pair        *)
(* <<p, q>> standing for the percentage p / q.                             *)
(***************************************************************************)
\* the percentage of report r is at most that of report s
AtMost(r, s) == r[1] * s[2] <= s[1] * r[2]

\* C30: batch progress reporting.  During convertMultiple over n >= 1
\* files the progress callback is called with (i / n) * 100 immediately
\* before file i (counted from 0) is converted and with exactly 100 once
\* after the last file: the reported percentages never decrease, stay
\* within 0..100, and the last report is 100 whether the items succeeded or
\* failed.
C30_BatchProgress ==
    (pc = "batch" /\ batch.state \in {"loop", "converting", "returned"}
        /\ Len(batch.files) >= 1)
        => LET n == Len(batch.files)
               reports == batch.progress
           IN  /\ batch.state = "converting"
                     => /\ Len(reports) = batch.converting
                        /\ reports[Len(reports)] = <<(batch.converting - 1) * 100, n>>
               /\ batch.state = "returned"
                     => /\ Len(reports) = n + 1
                        /\ \A i \in 0..(n - 1) : reports[i + 1] = <<i * 100, n>>
                        /\ reports[n + 1] = <<100, 1>>
               /\ \A k \in 1..Len(reports) :
                     /\ AtMost(<<0, 1>>, reports[k])
                     /\ AtMost(reports[k], <<100, 1>>)
                     /\ k < Len(reports) => AtMost(reports[k], reports[k + 1])

\* three files, the last conversion failed, and the four reports made
C30_Witness ==
    /\ pc = "batch"
    /\ batch.state = "returned"
    /\ Len(batch.files) = 3
    /\ batch.files[3].convert = "throws"
    /\ batch.progress = <<<<0, 3>>, <<100, 3>>, <<200, 3>>, <<100, 1>>>>

====
